---- MODULE Spec2Model ----
(***************************************************************************)
(* EasyProject MCP server: the JSON-RPC session loop (mcp/server.rs,       *)
(* mcp/transport.rs, mcp/protocol.rs), the tool registry                   *)
(* (tools/registry.rs) and the cache-aware, rate-limited API client        *)
(* (api/client.rs), as one state machine.                                  *)
(***************************************************************************)
EXTENDS Integers, Sequences, FiniteSets, TLC

\* ------------------------------------------------------------------ bounds
\* Successful upstream mutations explored (the upstream's version counter).
MaxWrites == 2
\* rate_limiting.burst_size of the explored configuration.
Burst == 2

\* --------------------------------------------------------------- Option<T>
None == <<>>
Some(x) == <<x>>
unwrap_or(o, d) == IF o = None THEN d ELSE o[1]

\* ------------------------------------------------- Display / format!("{}")
fmt_bool(b) == IF b THEN "true" ELSE "false"
fmt_int(n) == ToString(n)

RECURSIVE join(_, _)
join(list, sep) ==
    IF list = <<>> THEN ""
    ELSE IF Len(list) = 1 THEN list[1]
    ELSE list[1] \o sep \o join(Tail(list), sep)

\* ------------------------------------------------------- call parameters
\* One record shape for the parameters of every client method and the
\* arguments of every tool; each reads only the fields it declares.
P0 == [id |-> None, limit |-> None, offset |-> None, include |-> None,
       include_archived |-> None, easy_query_q |-> None, set_filter |-> None,
       sort |-> None, project_id |-> None, assigned_to_id |-> None,
       status_id |-> None, tracker_id |-> None, priority_id |-> None,
       status |-> None, user_id |-> None, from_date |-> None,
       to_date |-> None, include_issues |-> None,
       include_time_entries |-> None, include_users |-> None]

\* ------------------------------------------------------------ cache keys
key_list_projects(p) ==
    "projects_" \o fmt_int(unwrap_or(p.limit, 25))
        \o "_" \o fmt_int(unwrap_or(p.offset, 0))
        \o "_" \o fmt_bool(unwrap_or(p.include_archived, FALSE))
        \o "_" \o unwrap_or(p.easy_query_q, "")
        \o "_" \o fmt_bool(unwrap_or(p.set_filter, FALSE))
        \o "_" \o unwrap_or(p.sort, "")

key_get_project(p) == "project_" \o fmt_int(p.id[1])

key_list_issues(p) ==
    "issues_" \o (IF p.project_id = None THEN "all" ELSE fmt_int(p.project_id[1]))
        \o "_" \o fmt_int(unwrap_or(p.limit, 25))
        \o "_" \o fmt_int(unwrap_or(p.offset, 0))
        \o "_" \o (IF p.include = None THEN "none" ELSE join(p.include[1], ","))
        \o "_" \o unwrap_or(p.easy_query_q, "")
        \o "_" \o fmt_bool(unwrap_or(p.set_filter, FALSE))
        \o "_" \o unwrap_or(p.sort, "")
        \o "_" \o fmt_int(unwrap_or(p.assigned_to_id, 0))
        \o "_" \o fmt_int(unwrap_or(p.status_id, 0))
        \o "_" \o fmt_int(unwrap_or(p.tracker_id, 0))
        \o "_" \o fmt_int(unwrap_or(p.priority_id, 0))

\* The key of get_issue under the prefix of get_project.
key_get_issue_as_project(p) == "project_" \o fmt_int(p.id[1])

key_get_issue(p) == "issue_" \o fmt_int(p.id[1])

key_list_users(p) ==
    "users_" \o fmt_int(unwrap_or(p.limit, 25))
        \o "_" \o fmt_int(unwrap_or(p.offset, 0))
        \o "_" \o unwrap_or(p.easy_query_q, "")
        \o "_" \o fmt_bool(unwrap_or(p.set_filter, FALSE))
        \o "_" \o unwrap_or(p.sort, "")

key_get_user(p) == "user_" \o fmt_int(p.id[1])

key_list_time_entries(p) ==
    "time_entries_"
        \o (IF p.project_id = None THEN "all" ELSE fmt_int(p.project_id[1]))
        \o "_" \o (IF p.user_id = None THEN "all" ELSE fmt_int(p.user_id[1]))
        \o "_" \o fmt_int(unwrap_or(p.limit, 25))
        \o "_" \o fmt_int(unwrap_or(p.offset, 0))
        \o "_" \o unwrap_or(p.from_date, "none")
        \o "_" \o unwrap_or(p.to_date, "none")

key_list_milestones(p) ==
    "milestones_" \o fmt_int(unwrap_or(p.limit, 25))
        \o "_" \o fmt_int(unwrap_or(p.offset, 0))
        \o "_" \o fmt_int(unwrap_or(p.project_id, 0))
        \o "_" \o unwrap_or(p.status, "all")
        \o "_" \o unwrap_or(p.easy_query_q, "")

key_get_milestone(p) == "milestone_" \o fmt_int(p.id[1])

ReadOps == {"list_projects", "get_project", "list_issues", "get_issue",
            "list_users", "get_user", "list_time_entries",
            "list_milestones", "get_milestone"}

cache_key(op, p) ==
    CASE op = "list_projects" -> key_list_projects(p)
      [] op = "get_project" -> key_get_project(p)
      [] op = "list_issues" -> key_list_issues(p)
      [] op = "get_issue" -> key_get_issue(p)
      [] op = "list_users" -> key_list_users(p)
      [] op = "get_user" -> key_get_user(p)
      [] op = "list_time_entries" -> key_list_time_entries(p)
      [] op = "list_milestones" -> key_list_milestones(p)
      [] op = "get_milestone" -> key_get_milestone(p)

\* ------------------------------------------------- outgoing HTTP requests
opt_int(name, o) == IF o = None THEN <<>> ELSE << <<name, fmt_int(o[1])>> >>
opt_str(name, o) == IF o = None THEN <<>> ELSE << <<name, o[1]>> >>

\* easy_query_q forces set_filter=1; otherwise set_filter=1 only for Some(true)
filter_params(p) ==
    IF p.easy_query_q # None
    THEN << <<"easy_query_q", p.easy_query_q[1]>>, <<"set_filter", "1">> >>
    ELSE IF p.set_filter = Some(TRUE) THEN << <<"set_filter", "1">> >>
    ELSE <<>>

include_param(p) ==
    IF p.include = None THEN <<>>
    ELSE << <<"include", join(p.include[1], ",")>> >>

query_list_projects(p) ==
    opt_int("limit", p.limit) \o opt_int("offset", p.offset)
        \o filter_params(p) \o opt_str("sort", p.sort)

query_list_issues(p) ==
    opt_int("project_id", p.project_id) \o opt_int("limit", p.limit)
        \o opt_int("offset", p.offset) \o include_param(p)
        \o filter_params(p) \o opt_str("sort", p.sort)
        \o opt_int("assigned_to_id", p.assigned_to_id)
        \o opt_int("status_id", p.status_id)
        \o opt_int("tracker_id", p.tracker_id)
        \o opt_int("priority_id", p.priority_id)

query_list_users(p) ==
    opt_int("limit", p.limit) \o opt_int("offset", p.offset)
        \o filter_params(p) \o opt_str("sort", p.sort)
        \o opt_str("status", p.status)

query_list_time_entries(p) ==
    opt_int("project_id", p.project_id) \o opt_int("user_id", p.user_id)
        \o opt_int("limit", p.limit) \o opt_int("offset", p.offset)
        \o opt_str("from", p.from_date) \o opt_str("to", p.to_date)

query_list_milestones(p) ==
    opt_int("limit", p.limit) \o opt_int("offset", p.offset)
        \o opt_str("status", p.status)
        \o opt_str("easy_query_q", p.easy_query_q)

Req(method, url, query) == [method |-> method, url |-> url, query |-> query]
NoReq == Req("", "", <<>>)

\* The request each client method builds (the JSON payload of a write is
\* not part of the model).
request(op, p) ==
    CASE op = "list_projects" -> Req("GET", "/projects.json", query_list_projects(p))
      [] op = "get_project" ->
            Req("GET", "/projects/" \o fmt_int(p.id[1]) \o ".json", include_param(p))
      [] op = "list_issues" -> Req("GET", "/issues.json", query_list_issues(p))
      [] op = "get_issue" ->
            Req("GET", "/issues/" \o fmt_int(p.id[1]) \o ".json", include_param(p))
      [] op = "list_users" -> Req("GET", "/users.json", query_list_users(p))
      [] op = "get_user" -> Req("GET", "/users/" \o fmt_int(p.id[1]) \o ".json", <<>>)
      [] op = "list_time_entries" ->
            Req("GET", "/time_entries.json", query_list_time_entries(p))
      [] op = "list_milestones" ->
            Req("GET", "/versions.json", query_list_milestones(p))
      [] op = "get_milestone" ->
            Req("GET", "/versions/" \o fmt_int(p.id[1]) \o ".json", <<>>)
      [] op = "create_project" -> Req("POST", "/projects.json", <<>>)
      [] op = "update_project" ->
            Req("PUT", "/projects/" \o fmt_int(p.id[1]) \o ".json", <<>>)
      [] op = "delete_project" ->
            Req("DELETE", "/projects/" \o fmt_int(p.id[1]) \o ".json", <<>>)
      [] op = "create_issue" -> Req("POST", "/issues.json", <<>>)
      [] op = "update_issue" ->
            Req("PUT", "/issues/" \o fmt_int(p.id[1]) \o ".json", <<>>)
      [] op = "create_time_entry" -> Req("POST", "/time_entries.json", <<>>)
      [] op = "create_milestone" ->
            Req("POST", "/projects/" \o fmt_int(p.project_id[1]) \o "/versions.json", <<>>)
      [] op = "update_milestone" ->
            Req("PUT", "/versions/" \o fmt_int(p.id[1]) \o ".json", <<>>)
      [] op = "delete_milestone" ->
            Req("DELETE", "/versions/" \o fmt_int(p.id[1]) \o ".json", <<>>)

\* The wrapper key of the response type T each method decodes into.
response_type(op) ==
    CASE op = "list_projects" -> "projects"
      [] op \in {"get_project", "create_project", "update_project"} -> "project"
      [] op = "list_issues" -> "issues"
      [] op \in {"get_issue", "create_issue", "update_issue"} -> "issue"
      [] op = "list_users" -> "users"
      [] op = "get_user" -> "user"
      [] op = "list_time_entries" -> "time_entries"
      [] op = "create_time_entry" -> "time_entry"
      [] op = "list_milestones" -> "versions"
      [] op \in {"get_milestone", "create_milestone", "update_milestone"} -> "version"
      [] OTHER -> "unit"

\* ------------------------------------------------------- JSON values
\* A decoded body: which wrapper key it carries, and which request at which
\* upstream version it answers.  serde_json::json!({}) is EmptyObject.
Body(shape, req, ver) == [empty |-> FALSE, shape |-> shape, req |-> req, ver |-> ver]
EmptyObject == [empty |-> TRUE, shape |-> "", req |-> NoReq, ver |-> 0]
Unit == Body("unit", NoReq, 0)

Ok(v) == [ok |-> TRUE, err |-> "", val |-> v]
Err(e) == [ok |-> FALSE, err |-> e, val |-> EmptyObject]
NoRes == Err("pending")

\* What the upstream answers to a request when its data is at version ver.
UpstreamBody(op, req, ver) == Body(response_type(op), req, ver)

\* The outcomes of one HTTP exchange.
HttpOutcomes == {"json", "empty", "not_json", "non_2xx", "transport"}
Is2xx(outcome) == outcome \in {"json", "empty", "not_json"}

\* execute_request after the token is taken: send, classify the status,
\* read and decode the body.
execute_request(outcome, op, req, ver) ==
    CASE outcome = "transport" -> Err("Http")
      [] outcome = "non_2xx" -> Err("Api status")
      [] outcome = "empty" -> Ok(EmptyObject)
      [] outcome = "not_json" -> Err("Api 500 json")
      [] outcome = "json" -> Ok(UpstreamBody(op, req, ver))

\* parse_response::<T>: the value must carry T's wrapper key.
parse_response(value, T) ==
    IF ~value.empty /\ value.shape = T THEN Ok(value) ELSE Err("Api 500 parse")

\* serde_json::from_value::<T> of a cached value.
from_cache(value, T) ==
    IF ~value.empty /\ value.shape = T THEN Ok(value) ELSE Err("Api 500 cache")

\* An invalidation that removes nothing.
invalidate_cache_noop(c, pattern) == c

\* An invalidation that removes the entries of the pattern's resource type
\* and keeps the others.
invalidate_cache_matching(c, pattern) ==
    LET types == IF pattern = "milestone" THEN {"version", "versions"}
                 ELSE {"project", "projects"}
    IN [k \in {x \in DOMAIN c : c[x].shape \notin types} |-> c[k]]

\* invalidate_cache(pattern): the pattern is only logged.
invalidate_cache(c, pattern) == [k \in {} |-> EmptyObject]

\* The patterns a write invalidates after its request succeeded.
invalidation_scope(op, p) ==
    CASE op = "delete_project" -> <<"projects", "project_" \o fmt_int(p.id[1])>>
      [] op \in {"create_milestone", "update_milestone", "delete_milestone"} ->
            <<"milestone">>
      [] OTHER -> <<>>

RECURSIVE invalidate_each(_, _)
invalidate_each(c, patterns) ==
    IF patterns = <<>> THEN c
    ELSE invalidate_each(invalidate_cache(c, Head(patterns)), Tail(patterns))

\* ------------------------------------------------------------------ state
VARIABLES
    cfg,            \* AppConfig: cache.enabled, rate_limiting.enabled
    cache,          \* EasyProjectClient.cache: key -> stored value
    tokens,         \* cells the rate limiter can hand out now
    db,             \* version of the upstream's data
    plan,           \* client operations the running call still has to make
    res,            \* result of the client operation made last
    http,           \* HTTP requests dispatched by the running call
    taken,          \* rate-limit tokens taken by the running call
    errs,           \* the running call's client operations so far: did one
                    \* return Err, did one return an Err the caller gives up on
    call,           \* the client method a direct caller is running
    lastCall,       \* the read that returned Ok just before, while the cache
                    \* has lost no entry since
    swept,          \* the last write with an invalidation scope that returned
                    \* Ok: the upstream version it left, the keys cached before
    pc,             \* McpServer::run: "recv", "exec" (a tool is running),
                    \* "done" (the message is handled), "stopped"
    is_initialized, \* McpServer.is_initialized
    client_info,    \* McpServer.client_info
    is_closed,      \* StdioTransport.is_closed
    msg,            \* what transport.receive() read in this iteration
    sent,           \* the responses handed to transport.send() for msg
    ran,            \* the tool whose execute() was invoked for msg
    exit,           \* how run() ended: did close() flush stdout, what run() returned
    tool_registry,  \* McpServer.tool_registry.tools: the names registered
    listed,         \* the tools the session's first tools/list result held,
                    \* and whether a later tools/list was answered too
    probe,          \* a read method, two parameter sets and their cache keys
    scan,           \* get_issue_enumerations: its loop variables, the page it
                    \* read last, why it left the loop
    share,          \* the tools' duplicates of the client: the Arcs each holds,
                    \* what lies behind every Arc, the step taken last
    boot,           \* main: the configuration loaded, how far startup has
                    \* come, how it failed
    reply,          \* one HTTP exchange of execute_request: the request, the
                    \* status and the text received, what it returned
    race            \* two tasks on one client: how far the reading and the
                    \* mutating method have come, the upstream version left by
                    \* the last mutation whose invalidation is done

clientVars == <<cfg, cache, tokens, db, plan, res, http, taken, errs>>
callerVars == <<call, lastCall, swept>>
sessionVars == <<pc, is_initialized, client_info, is_closed, msg, sent, ran, exit,
                 tool_registry>>
vars == <<cfg, cache, tokens, db, plan, res, http, taken, errs, call, lastCall, swept,
          pc, is_initialized, client_info, is_closed, msg, sent, ran, exit,
          tool_registry, listed, probe, scan, share, boot, reply, race>>

EmptyCache == [k \in {} |-> EmptyObject]

\* A client operation of the running call; must: the caller returns an error
\* of its own when the operation returns Err (`?`, or an Err arm that returns).
ReadOp(op, p) == [k |-> "read", op |-> op, p |-> p, must |-> TRUE]
WriteOp(op, p) == [k |-> "write", op |-> op, p |-> p, must |-> TRUE]
\* A read whose Err the caller notes in its output and goes on.
SoftOp(op, p) == [ReadOp(op, p) EXCEPT !.must = FALSE]

NoErrs == [any |-> FALSE, fatal |-> FALSE]
\* errs after an operation returned r
noted(r) == [any |-> errs.any \/ ~r.ok,
             fatal |-> errs.fatal \/ (~r.ok /\ Head(plan).must)]

\* cache.get(key) finds an unexpired entry
cache_hit(key) == cfg.cache_enabled /\ key \in DOMAIN cache

\* A fetch that forgets to store its result.
cache_insert_dropped(c, key, value) == c

\* cache.insert(key, value)
cache_insert(c, key, value) == (key :> value) @@ c

\* A limiter that never makes the caller wait.
until_ready_at_once == TRUE

\* limiter.until_ready(): ready when a cell is available (no limiter: at once)
until_ready == cfg.rate_enabled => tokens >= 1

\* A call that makes a failed operation again.
continue_retrying(r, more) ==
    IF r.ok THEN more \o Tail(plan) ELSE plan

\* What is left of the running call after an operation returned r: `?` and
\* the tools' early returns end it on an error.
continue(r, more) ==
    IF r.ok THEN more \o Tail(plan)
    ELSE IF Head(plan).must THEN <<>>
    ELSE Tail(plan)

\* get_cached_or_fetch, hit: decode the stored value, no request.
CacheHit ==
    /\ plan # <<>>
    /\ Head(plan).k = "read"
    /\ LET o == Head(plan)
           key == cache_key(o.op, o.p)
       IN /\ cache_hit(key)
          /\ res' = from_cache(cache[key], response_type(o.op))
          /\ plan' = continue(res', <<>>)
          /\ errs' = noted(res')
    /\ UNCHANGED <<cfg, cache, tokens, db, http, taken>>

\* A miss that stores whatever the fetch returned.
insert_fetched_always(c, key, result) == cache_insert(c, key, result.val)

\* get_cached_or_fetch after `fetch_fn.await?`: an Err has left the method,
\* an Ok value is stored.
insert_fetched(c, key, result) ==
    IF result.ok THEN cache_insert(c, key, result.val) ELSE c

\* get_cached_or_fetch, miss: one request through execute_request; the
\* parsed result is stored only when it is Ok.
Fetch ==
    /\ plan # <<>>
    /\ Head(plan).k = "read"
    /\ LET o == Head(plan)
           key == cache_key(o.op, o.p)
       IN /\ ~cache_hit(key)
          /\ until_ready
          /\ \E outcome \in HttpOutcomes :
                LET r == execute_request(outcome, o.op, request(o.op, o.p), db)
                    parsed == IF r.ok THEN parse_response(r.val, response_type(o.op))
                              ELSE r
                IN /\ res' = parsed
                   /\ cache' = IF cfg.cache_enabled
                               THEN insert_fetched(cache, key, parsed)
                               ELSE cache
                   /\ plan' = continue(parsed, <<>>)
                   /\ errs' = noted(parsed)
    /\ tokens' = IF cfg.rate_enabled THEN tokens - 1 ELSE tokens
    /\ taken' = IF cfg.rate_enabled THEN taken + 1 ELSE taken
    /\ http' = http + 1
    /\ UNCHANGED <<cfg, db>>

\* What a write returns once execute_request gave Ok(value).
write_result(op, value) ==
    CASE op \in {"delete_project", "delete_milestone"} -> Ok(Unit)
      [] op = "update_issue" /\ value.empty -> Ok(value)
      [] OTHER -> parse_response(value, response_type(op))

\* update_issue re-reads the issue when the response was an empty object.
write_followup(op, p, value) ==
    IF op = "update_issue" /\ value.empty
    THEN << ReadOp("get_issue", [P0 EXCEPT !.id = p.id]) >>
    ELSE <<>>

\* A write that invalidates whatever its request returned.
invalidate_after_always(c, r, op, p) ==
    IF cfg.cache_enabled THEN invalidate_each(c, invalidation_scope(op, p)) ELSE c

\* `self.execute_request(request).await?;` and then the invalidations: an Err
\* leaves the method before them.
invalidate_after(c, r, op, p) ==
    IF r.ok /\ cfg.cache_enabled THEN invalidate_each(c, invalidation_scope(op, p))
    ELSE c

\* create_*, update_*, delete_*: one request through execute_request, never
\* through the cache; then the method's invalidations, then its result.
Write ==
    /\ plan # <<>>
    /\ Head(plan).k = "write"
    /\ until_ready
    /\ LET o == Head(plan) IN
       \E outcome \in HttpOutcomes :
          /\ Is2xx(outcome) => db < MaxWrites
          /\ db' = IF Is2xx(outcome) THEN db + 1 ELSE db
          /\ LET r == execute_request(outcome, o.op, request(o.op, o.p), db')
                 out == IF r.ok THEN write_result(o.op, r.val) ELSE r
             IN /\ res' = out
                /\ cache' = invalidate_after(cache, r, o.op, o.p)
                /\ plan' = continue(out, IF r.ok THEN write_followup(o.op, o.p, r.val)
                                         ELSE <<>>)
                /\ errs' = noted(out)
    /\ tokens' = IF cfg.rate_enabled THEN tokens - 1 ELSE tokens
    /\ taken' = IF cfg.rate_enabled THEN taken + 1 ELSE taken
    /\ http' = http + 1
    /\ UNCHANGED cfg

\* A clock that stops while the bucket is empty.
Refill_stalled ==
    /\ cfg.rate_enabled
    /\ tokens < Burst /\ tokens > 0
    /\ tokens' = tokens + 1
    /\ UNCHANGED <<cfg, cache, db, plan, res, http, taken, errs>>

\* The limiter's clock: one cell becomes available again.
Refill ==
    /\ cfg.rate_enabled
    /\ tokens < Burst
    /\ tokens' = tokens + 1
    /\ UNCHANGED <<cfg, cache, db, plan, res, http, taken, errs>>

NoLast == [call |-> [op |-> "none", p |-> P0], val |-> EmptyObject]

\* moka: an entry's time to live ran out, or it was evicted for capacity.
Expire ==
    /\ \E key \in DOMAIN cache :
          cache' = [k \in DOMAIN cache \ {key} |-> cache[k]]
    /\ UNCHANGED <<cfg, tokens, db, plan, res, http, taken, errs>>

\* ---------------------------------------------- the client, called directly
WriteOps == {"create_project", "update_project", "delete_project",
             "create_issue", "update_issue", "create_time_entry",
             "create_milestone", "update_milestone", "delete_milestone"}

Call(op, p) == [op |-> op, p |-> p]
NoCall == Call("none", P0)

\* The calls explored: every write, and reads of each kind of key, two of
\* them with parameter sets that differ.
WithId(n) == [P0 EXCEPT !.id = Some(n)]
ClientCalls ==
    { Call("list_projects", P0),
      Call("list_projects", [P0 EXCEPT !.limit = Some(25)]),
      Call("get_issue", WithId(5)),
      Call("get_milestone", WithId(1)),
      Call("create_project", P0),
      Call("update_project", WithId(1)),
      Call("delete_project", WithId(1)),
      Call("create_issue", P0),
      Call("update_issue", WithId(5)),
      Call("create_time_entry", P0),
      Call("create_milestone", [P0 EXCEPT !.project_id = Some(1)]),
      Call("update_milestone", WithId(1)),
      Call("delete_milestone", WithId(1)) }

client_plan(c) ==
    IF c.op \in ReadOps THEN << ReadOp(c.op, c.p) >> ELSE << WriteOp(c.op, c.p) >>

Invoke ==
    /\ call = NoCall
    /\ \E c \in ClientCalls :
          /\ call' = c
          /\ plan' = client_plan(c)
    /\ res' = NoRes
    /\ http' = 0
    /\ taken' = 0
    /\ errs' = NoErrs
    /\ UNCHANGED <<cfg, cache, tokens, db, lastCall, swept>>

Return ==
    /\ call # NoCall
    /\ plan = <<>>
    /\ call' = NoCall
    /\ res' = NoRes
    /\ http' = 0
    /\ taken' = 0
    /\ errs' = NoErrs
    /\ UNCHANGED <<cfg, cache, tokens, db, plan>>

\* The running call has made all its operations and is about to return (an
\* entry that expires now expires after the return).
Returning == call # NoCall /\ plan = <<>>

\* The observer of a Return step: the call that returned, when it is a read
\* that returned Ok.
RecordCall ==
    lastCall' = IF call.op \in ReadOps /\ res.ok
                THEN [call |-> call, val |-> res.val]
                ELSE NoLast

InitClient ==
    /\ cache = EmptyCache
    /\ tokens = Burst
    /\ db = 0
    /\ plan = <<>>
    /\ res = NoRes
    /\ http = 0
    /\ taken = 0
    /\ errs = NoErrs
    /\ call = NoCall
    /\ lastCall = NoLast
    /\ swept = [ver |-> 0, keys |-> {}]

\* The observer of a Write step: a write with an invalidation scope returned Ok.
RecordSweep ==
    swept' = IF res'.ok /\ invalidation_scope(Head(plan).op, Head(plan).p) # <<>>
             THEN [ver |-> db', keys |-> DOMAIN cache]
             ELSE swept

\* ---------------------------------------------------- JSON-RPC messages
\* The `arguments` member of tools/call: absent, present but not decodable
\* into the tool's Args struct, or decodable into the parameters p.
NoArgs == [present |-> FALSE, valid |-> FALSE, p |-> P0]
BadArgs == [present |-> TRUE, valid |-> FALSE, p |-> P0]
Args(p) == [present |-> TRUE, valid |-> TRUE, p |-> p]

\* The `params` member of a request: absent, present but not decodable into
\* the method's params struct, InitializeParams, or CallToolParams.
NoParams == [present |-> FALSE, valid |-> FALSE, version |-> "", client |-> "",
             name |-> "", arguments |-> NoArgs]
BadParams == [NoParams EXCEPT !.present = TRUE]
InitializeParams(version, client) ==
    [NoParams EXCEPT !.present = TRUE, !.valid = TRUE,
                     !.version = version, !.client = client]
CallToolParams(name, arguments) ==
    [NoParams EXCEPT !.present = TRUE, !.valid = TRUE,
                     !.name = name, !.arguments = arguments]

\* What read_line gave: a line (is it JSON, has it a `result` or `error`
\* member, has it the members its struct requires, its id, its method, its
\* params), a blank line, end of input, or a read error.
Line(json, member, envelope, id, method, params) ==
    [io |-> "line", json |-> json, member |-> member, envelope |-> envelope,
     id |-> id, method |-> method, params |-> params]
NoLine == [Line(FALSE, FALSE, FALSE, "absent", "", NoParams) EXCEPT !.io = "none"]
Eof == [NoLine EXCEPT !.io = "eof"]
ReadError == [NoLine EXCEPT !.io = "read_error"]

JsonRpcRequest(id, method, params) == Line(TRUE, FALSE, TRUE, id, method, params)

\* A decoder that takes every message that is not a response for a request.
from_json_no_notifications(line) ==
    IF ~line.json THEN "Err"
    ELSE IF line.member THEN (IF line.envelope THEN "Response" ELSE "Err")
    ELSE IF ~line.envelope THEN "Err"
    ELSE "Request"

\* A decoder that takes a message with a method and an id for a request
\* before it looks for a result or an error member.
from_json_method_first(line) ==
    IF ~line.json THEN "Err"
    ELSE IF ~line.envelope THEN "Err"
    ELSE IF line.method # "" /\ line.id \notin {"absent", "null"} THEN "Request"
    ELSE IF line.member THEN "Response"
    ELSE IF line.id \in {"absent", "null"} THEN "Notification"
    ELSE "Request"

\* McpMessage::from_json
from_json(line) ==
    IF ~line.json THEN "Err"
    ELSE IF line.member THEN (IF line.envelope THEN "Response" ELSE "Err")
    ELSE IF ~line.envelope THEN "Err"
    ELSE IF line.id \in {"absent", "null"} THEN "Notification"
    ELSE "Request"

\* impl From<McpError> for JsonRpcError: the code of each error
JsonRpcError_code(e) ==
    CASE e = "Protocol" -> -32600
      [] e = "InvalidMessage" -> -32700
      [] e = "UnknownMethod" -> -32601
      [] e = "InvalidParams" -> -32602
      [] e = "ToolNotFound" -> -32001
      [] e = "ToolError" -> -32000
      [] OTHER -> -32603

\* A response that answers every request with the id null.
response_id_null(rq) == "null"

\* JsonRpcResponse::success / ::error take rq.id
response_id(rq) == rq.id

\* handle_request's last match: the JsonRpcResponse of a handler's result;
\* is_error is CallToolResult.is_error of a tools/call result.
\* config.server of AppConfig::default()
ServerConfig_default == [name |-> "EasyProject MCP Server", version |-> "1.0.0"]

\* An initialize result that answers with the version the client declared.
initialize_result_echo(rq, result) ==
    IF rq.method = "initialize" /\ result = "Ok"
    THEN Some([protocol_version |-> rq.params.version,
               capabilities |-> {"logging", "prompts", "resources", "tools"},
               server_info |-> ServerConfig_default])
    ELSE None

\* The InitializeResult handle_initialize returns, None in any other result
initialize_result(rq, result) ==
    IF rq.method = "initialize" /\ result = "Ok"
    THEN Some([protocol_version |-> "2024-11-05",
               capabilities |-> {"logging", "prompts", "resources", "tools"},
               server_info |-> ServerConfig_default])
    ELSE None

JsonRpcResponse(rq, result, is_error, tools) ==
    [id |-> response_id(rq), ok |-> result = "Ok",
     code |-> IF result = "Ok" THEN 0 ELSE JsonRpcError_code(result),
     is_error |-> is_error, tools |-> tools,
     initialize |-> initialize_result(rq, result)]

\* ------------------------------------------------------------- registry
\* A tool as ToolRegistry::new makes it: the flag of config.tools that
\* guards it, its name() and the start of its description() (without the
\* diacritics of the source).
Executor(category, name, description) ==
    [category |-> category, name |-> name, description |-> description]

ToolExecutors ==
    {
      Executor("projects", "list_projects",
               "Ziska seznam vsech projektu v EasyProject systemu"),
      Executor("projects", "get_project",
               "Ziska detail konkretniho projektu podle ID"),
      Executor("projects", "create_project",
               "Vytvori novy projekt v EasyProject systemu"),
      Executor("projects", "update_project",
               "Aktualizuje existujici projekt v EasyProject systemu"),
      Executor("projects", "delete_project",
               "Smaze projekt z EasyProject systemu"),
      Executor("issues", "list_issues",
               "Ziska seznam ukolu (issues)"),
      Executor("issues", "get_issue",
               "Ziska detail konkretniho ukolu podle ID"),
      Executor("issues", "create_issue",
               "Vytvori novy ukol v EasyProject systemu"),
      Executor("issues", "update_issue",
               "Aktualizuje existujici ukol v EasyProject systemu"),
      Executor("issues", "assign_issue",
               "Priradi ukol konkretnimu uzivateli"),
      Executor("issues", "complete_task",
               "Oznaci ukol jako dokonceny"),
      Executor("issues", "get_issue_enumerations",
               "Ziska ciselniky (status, priority, tracker)"),
      Executor("users", "list_users",
               "Ziska seznam vsech uzivatelu v EasyProject systemu"),
      Executor("users", "get_user",
               "Ziska detail konkretniho uzivatele podle ID"),
      Executor("users", "get_user_workload",
               "Ziska pracovni vytizeni uzivatele"),
      Executor("time_entries", "list_time_entries",
               "Ziska seznam casovych zaznamu"),
      Executor("time_entries", "get_time_entry",
               "Ziska detail konkretniho casoveho zaznamu podle ID"),
      Executor("time_entries", "create_time_entry",
               "Vytvori novy casovy zaznam pro projekt nebo ukol"),
      Executor("time_entries", "update_time_entry",
               "Aktualizuje existujici casovy zaznam"),
      Executor("time_entries", "delete_time_entry",
               "Smaze casovy zaznam"),
      Executor("time_entries", "log_time",
               "Rychle zaloguje cas na projekt nebo ukol"),
      Executor("reports", "generate_project_report",
               "Generuje detailni sestavu k projektu"),
      Executor("reports", "get_dashboard_data",
               "Ziska agregovana data pro dashboard"),
      Executor("milestones", "list_milestones",
               "Ziska seznam vsech milniku (versions)"),
      Executor("milestones", "get_milestone",
               "Ziska detail konkretniho milniku podle ID"),
      Executor("milestones", "create_milestone",
               "Vytvori novy milnik v zadanem projektu"),
      Executor("milestones", "update_milestone",
               "Aktualizuje existujici milnik"),
      Executor("milestones", "delete_milestone",
               "Smaze existujici milnik") }

\* A registry that looks at no flag.
ToolRegistry_new_all(tools) == {e.name : e \in ToolExecutors}

\* ToolRegistry::new: the tools of each category whose flag is set, each
\* inserted under its name().
ToolRegistry_new(tools) ==
    {e.name : e \in {x \in ToolExecutors : tools[x.category]}}

\* AppConfig::default().tools; the flag registry.rs reads for the milestone
\* tools is not declared in ToolsConfig and is taken as set like the others.
ToolsConfig_default ==
    [projects |-> TRUE, issues |-> TRUE, users |-> TRUE, time_entries |-> TRUE,
     reports |-> TRUE, milestones |-> TRUE]

\* The first statement of each execute(): decoding the arguments.
\* list_projects takes defaults when there are none, get_time_entry does not
\* look at them, the others need them and return Err without.
decode_args(name, arguments) ==
    CASE name = "get_time_entry" -> Ok(Unit)
      [] name = "list_projects" /\ ~arguments.present -> Ok(Unit)
      [] ~arguments.present -> Err("missing arguments")
      [] ~arguments.valid -> Err("serde")
      [] OTHER -> Ok(Unit)

\* The client calls each execute() makes, in order, after decoding.
tool_plan(name, arguments) ==
    LET p == arguments.p
        id == [P0 EXCEPT !.id = p.id]
    IN CASE name = "list_projects" ->
                << ReadOp("list_projects",
                          IF arguments.present
                          THEN [p EXCEPT !.set_filter = None]
                          ELSE [P0 EXCEPT !.limit = Some(25),
                                          !.include_archived = Some(FALSE)]) >>
         [] name = "get_project" ->
                << ReadOp("get_project", [id EXCEPT !.include = p.include]) >>
         [] name = "delete_project" ->
                << ReadOp("get_project", id), WriteOp("delete_project", id) >>
         [] name = "update_issue" ->
                << ReadOp("get_issue", id), WriteOp("update_issue", id) >>
         [] name = "generate_project_report" ->
                << ReadOp("get_project",
                          [P0 EXCEPT !.id = p.project_id,
                                     !.include = Some(<<"trackers", "enabled_modules">>)]) >>
                \o (IF unwrap_or(p.include_issues, TRUE)
                    THEN << SoftOp("list_issues",
                                   [P0 EXCEPT !.project_id = p.project_id,
                                              !.limit = Some(1000)]) >>
                    ELSE <<>>)
                \o (IF unwrap_or(p.include_time_entries, TRUE)
                    THEN << SoftOp("list_time_entries",
                                   [P0 EXCEPT !.project_id = p.project_id,
                                              !.limit = Some(1000),
                                              !.from_date = p.from_date,
                                              !.to_date = p.to_date]) >>
                    ELSE <<>>)
                \o (IF unwrap_or(p.include_users, TRUE)
                    THEN << SoftOp("list_users", [P0 EXCEPT !.limit = Some(100)]) >>
                    ELSE <<>>)
         [] OTHER -> <<>>

\* CallToolResult.is_error of a tool whose client calls are done: an Err the
\* tool gives up on becomes CallToolResult::error, an Err it notes in its
\* report does not; get_time_entry always answers with an error.
tool_is_error(name, e) == name = "get_time_entry" \/ e.fatal

\* A session that lets tools be listed and called before initialize.
not_initialized_skipped == FALSE

\* handle_tools_list, handle_tools_call: `if !self.is_initialized`
not_initialized == ~is_initialized

\* An initialize that succeeds whatever its params are.
handle_initialize_lenient(params) == "Ok"

\* handle_initialize
handle_initialize(params) ==
    IF ~params.present \/ ~params.valid THEN "InvalidParams" ELSE "Ok"

\* handle_tools_list
handle_tools_list == IF not_initialized THEN "Protocol" ELSE "Ok"

\* The Tool a registered tool is listed as: its name() and what its
\* description() and input_schema() return, which depend on the tool alone.
Tool(name) ==
    [name |-> name,
     description |-> (CHOOSE e \in ToolExecutors : e.name = name).description,
     input_schema |-> [schema_type |-> "object",
                       properties |-> Some(<<"input_schema", name>>)]]

list_tools_by_client ==
    { Tool(name) : name \in IF client_info = Some("B") THEN {} ELSE tool_registry }

\* ToolRegistry::list_tools
list_tools == { Tool(name) : name \in tool_registry }

\* ListToolsResult.tools of a tools/list result, None in any other result
result_tools(rq, result) ==
    IF rq.method = "tools/list" /\ result = "Ok" THEN Some(list_tools) ELSE None

\* handle_tools_call down to the tool's decoding of its arguments: the
\* McpError it returns, or "execute" when the tool goes on to its client calls.
handle_tools_call(params) ==
    IF not_initialized THEN "Protocol"
    ELSE IF ~params.present \/ ~params.valid THEN "InvalidParams"
    ELSE IF params.name \notin tool_registry THEN "ToolError"
    ELSE IF ~decode_args(params.name, params.arguments).ok THEN "ToolError"
    ELSE "execute"

\* handle_request: the dispatch on rq.method
handle_request(rq) ==
    CASE rq.method = "initialize" -> handle_initialize(rq.params)
      [] rq.method = "tools/list" -> handle_tools_list
      [] rq.method = "tools/call" -> handle_tools_call(rq.params)
      [] OTHER -> "UnknownMethod"

\* ToolRegistry::execute_tool reaches tool.execute(arguments)
invokes_tool(rq) ==
    /\ rq.method = "tools/call"
    /\ ~not_initialized
    /\ rq.params.present /\ rq.params.valid
    /\ rq.params.name \in tool_registry

\* ---------------------------------------------------- the session loop
NoExit == [flushed |-> FALSE, result |-> "none"]

\* A loop that goes on receiving after the transport reported its closure.
run_on_error_retry(e) == IF e = "ConnectionClosed" THEN "recv" ELSE "stopped"

\* run(): both Err arms of the match on receive() break out of the loop.
run_on_error(e) == "stopped"

\* run() after the loop: `self.transport.close().await?; Ok(())`, where
\* close() sets is_closed and fails when the flush of stdout fails.
close(flushed) ==
    /\ is_closed' = TRUE
    /\ exit' = [flushed |-> flushed, result |-> IF flushed THEN "Ok" ELSE "Err"]

InitSession ==
    /\ pc = "recv"
    /\ is_initialized = FALSE
    /\ client_info = None
    /\ is_closed = FALSE
    /\ msg = NoLine
    /\ sent = <<>>
    /\ ran = "none"
    /\ exit = NoExit
    /\ tool_registry = ToolRegistry_new(ToolsConfig_default)

\* The request ids explored.
Ids == {"1", "2"}

\* The method and params of the requests explored.
Calls ==
    { [method |-> "initialize", params |-> NoParams],
      [method |-> "initialize", params |-> BadParams],
      [method |-> "initialize", params |-> InitializeParams("2024-11-05", "A")],
      [method |-> "initialize", params |-> InitializeParams("1.0", "B")],
      [method |-> "tools/list", params |-> NoParams],
      [method |-> "resources/list", params |-> NoParams],
      [method |-> "tools/call", params |-> NoParams],
      [method |-> "tools/call", params |-> BadParams],
      [method |-> "tools/call", params |-> CallToolParams("list_projects", NoArgs)],
      [method |-> "tools/call", params |-> CallToolParams("get_project", NoArgs)],
      [method |-> "tools/call", params |-> CallToolParams("get_project", BadArgs)],
      [method |-> "tools/call", params |-> CallToolParams("get_project", Args(WithId(1)))],
      [method |-> "tools/call", params |-> CallToolParams("delete_project", Args(WithId(1)))],
      [method |-> "tools/call", params |-> CallToolParams("update_issue", Args(WithId(5)))],
      [method |-> "tools/call", params |-> CallToolParams("get_time_entry", NoArgs)],
      [method |-> "tools/call",
       params |-> CallToolParams("generate_project_report",
                    Args([P0 EXCEPT !.project_id = Some(1),
                                    !.include_time_entries = Some(FALSE),
                                    !.include_users = Some(FALSE)]))],
      [method |-> "tools/call", params |-> CallToolParams("no_such_tool", NoArgs)] }

\* The lines explored: text that is not JSON, a request without its
\* `jsonrpc` member, a response, notifications (no id, id null), requests.
Lines ==
    { Line(FALSE, FALSE, FALSE, "absent", "", NoParams),
      Line(TRUE, FALSE, FALSE, "1", "tools/list", NoParams),
      Line(TRUE, TRUE, TRUE, "1", "", NoParams),
      Line(TRUE, TRUE, TRUE, "absent", "", NoParams),
      Line(TRUE, TRUE, TRUE, "2", "tools/list", NoParams),
      JsonRpcRequest("absent", "notifications/initialized", NoParams),
      JsonRpcRequest("absent", "notifications/cancelled", NoParams),
      JsonRpcRequest("absent", "resources/list", NoParams),
      JsonRpcRequest("absent", "tools/call",
                     CallToolParams("get_project", Args(WithId(1)))),
      JsonRpcRequest("absent", "initialize", InitializeParams("2024-11-05", "A")),
      JsonRpcRequest("null", "tools/list", NoParams) }
    \cup { JsonRpcRequest(id, c.method, c.params) : id \in Ids, c \in Calls }

\* transport.send(response): handed to the transport, which writes it to
\* stdout unless the write or the flush fails.
send(response, written) ==
    sent' = Append(sent, [response |-> response, written |-> written])

\* A loop that takes the next line while a tool is still running.
receiving_while_busy == pc \in {"recv", "exec"} /\ ~is_closed

\* run() is at `self.transport.receive().await`, which it reaches only after
\* `self.handle_message(message).await` has returned; the transport is open.
receiving == pc = "recv" /\ ~is_closed

\* receive(): end of input or a read error; run() leaves the loop and closes
\* the transport.
ReceiveClosed ==
    /\ receiving
    /\ \E end \in {Eof, ReadError} :
          /\ msg' = end
          /\ pc' = run_on_error(IF end = Eof THEN "ConnectionClosed" ELSE "StdinRead")
    /\ \E flushed \in BOOLEAN : close(flushed)
    /\ UNCHANGED <<is_initialized, client_info, sent, ran, tool_registry>>
    /\ UNCHANGED clientVars

\* receive(): a blank line is skipped, the next line is read.
ReceiveBlank ==
    /\ receiving
    /\ UNCHANGED sessionVars
    /\ UNCHANGED clientVars

\* receive(): from_json fails, the error is returned as it is; run() takes
\* its last arm, leaves the loop and closes the transport.
ReceiveUndecodable ==
    /\ receiving
    /\ \E line \in Lines :
          /\ from_json(line) = "Err"
          /\ msg' = line
    /\ pc' = run_on_error("Serialization")
    /\ \E flushed \in BOOLEAN : close(flushed)
    /\ UNCHANGED <<is_initialized, client_info, sent, ran, tool_registry>>
    /\ UNCHANGED clientVars

\* handle_message, Notification: handle_notification only logs.
HandleNotification ==
    /\ receiving
    /\ \E line \in Lines :
          /\ from_json(line) = "Notification"
          /\ msg' = line
    /\ pc' = "done"
    /\ UNCHANGED <<is_initialized, client_info, is_closed, sent, ran>>
    /\ UNCHANGED clientVars
    /\ UNCHANGED <<exit, tool_registry>>

\* handle_message, Response: a warning.
HandleResponse ==
    /\ receiving
    /\ \E line \in Lines :
          /\ from_json(line) = "Response"
          /\ msg' = line
    /\ pc' = "done"
    /\ UNCHANGED <<is_initialized, client_info, is_closed, sent, ran>>
    /\ UNCHANGED clientVars
    /\ UNCHANGED <<exit, tool_registry>>

\* handle_message, Request, when handle_request ends without a client call:
\* initialize, tools/list, an unknown method, and tools/call that fails
\* before or in the tool's decoding of its arguments.
HandleRequest ==
    /\ receiving
    /\ \E line \in Lines :
          /\ from_json(line) = "Request"
          /\ LET result == handle_request(line)
                 initialized == line.method = "initialize" /\ result = "Ok"
             IN /\ result # "execute"
                /\ msg' = line
                /\ is_initialized' = (is_initialized \/ initialized)
                /\ client_info' = IF initialized THEN Some(line.params.client)
                                  ELSE client_info
                /\ ran' = IF invokes_tool(line) THEN line.params.name ELSE "none"
                /\ \E written \in BOOLEAN :
                      send(JsonRpcResponse(line, result, FALSE, result_tools(line, result)),
                           written)
    /\ pc' = "done"
    /\ UNCHANGED is_closed
    /\ UNCHANGED clientVars
    /\ UNCHANGED <<exit, tool_registry>>

\* handle_message, Request, tools/call of a registered tool whose arguments
\* decode: execute() starts on its client calls.
ExecuteTool ==
    /\ receiving
    /\ \E line \in Lines :
          /\ from_json(line) = "Request"
          /\ handle_request(line) = "execute"
          /\ msg' = line
          /\ ran' = line.params.name
          /\ plan' = tool_plan(line.params.name, line.params.arguments)
    /\ pc' = "exec"
    /\ res' = NoRes
    /\ http' = 0
    /\ taken' = 0
    /\ errs' = NoErrs
    /\ UNCHANGED <<is_initialized, client_info, is_closed, sent>>
    /\ UNCHANGED <<cfg, cache, tokens, db>>
    /\ UNCHANGED <<exit, tool_registry>>

\* execute() returned its CallToolResult: handle_tools_call wraps it in Ok,
\* handle_request in a success response, handle_message sends it.
Respond ==
    /\ pc = "exec"
    /\ plan = <<>>
    /\ \E written \in BOOLEAN :
          send(JsonRpcResponse(msg, "Ok", tool_is_error(ran, errs), None), written)
    /\ pc' = "done"
    /\ UNCHANGED <<is_initialized, client_info, is_closed, msg, ran>>
    /\ UNCHANGED clientVars
    /\ UNCHANGED <<exit, tool_registry>>

\* run(): the next iteration of the loop.
NextIteration ==
    /\ pc = "done"
    /\ pc' = "recv"
    /\ msg' = NoLine
    /\ sent' = <<>>
    /\ ran' = "none"
    /\ res' = NoRes
    /\ http' = 0
    /\ taken' = 0
    /\ errs' = NoErrs
    /\ UNCHANGED <<is_initialized, client_info, is_closed>>
    /\ UNCHANGED <<cfg, cache, tokens, db, plan>>
    /\ UNCHANGED <<exit, tool_registry>>

\* ------------------------------------ get_issue_enumerations, the scan
limit == 100
max_iterations == 20

Min(a, b) == IF a < b THEN a ELSE b
Max(a, b) == IF a > b THEN a ELSE b

\* `total as u32`: the 32 bits of an integer as an unsigned number, written
\* as its two 16-bit halves.
as_u32(n) == [hi |-> (n \div 65536) % 65536, lo |-> n % 65536]

\* a >= b on u32
u32_ge(a, b) == a.hi > b.hi \/ (a.hi = b.hi /\ a.lo >= b.lo)

\* What list_issues returned: Ok(IssuesResponse) with the number of issues
\* on the page and total_count, or Err.
\* items: the page's issues in their order, an issue equal to the one
\* before it left out.
IssuesResponse(issues, total_count, items) ==
    [ok |-> TRUE, issues |-> issues, total_count |-> total_count, items |-> items]
PageErr == [ok |-> FALSE, issues |-> 0, total_count |-> None, items |-> <<>>]
NoPage == [ok |-> TRUE, issues |-> 0, total_count |-> None, items |-> <<>>]

\* Issue: the members get_issue_enumerations reads.
Reference(id, name) == [id |-> id, name |-> name]
Issue(status, priority, tracker) ==
    [status |-> status, priority |-> priority, tracker |-> tracker]

\* The issues explored: ids shared between issues, one status id under two
\* names.
Issues ==
    { Issue(Reference(1, "New"), Reference(2, "Normal"), Reference(3, "Task")),
      Issue(Reference(2, "Closed"), Reference(2, "Normal"), Reference(1, "Bug")),
      Issue(Reference(1, "Novy"), Reference(1, "Low"), Reference(1, "Bug")) }

\* A page of n issues that are all the same.
Uniform(n) ==
    IF n = 0 THEN <<>>
    ELSE << Issue(Reference(1, "New"), Reference(2, "Normal"), Reference(3, "Task")) >>

\* An upstream that holds T issues, reports T and honours limit and offset.
honest_page(T, lim, off) ==
    IssuesResponse(Min(lim, Max(0, T - off)), Some(T), Uniform(Min(lim, Max(0, T - off))))

\* The totals such an upstream is explored with.
Totals == {0, 1, 99, 100, 101, 150, 200, 1999, 2000, 2001, 2500}

\* Any upstream: a page that is empty, short or full, with total_count
\* missing, zero, negative, fixed or always ahead of the offset; or a failure.
AnyPages(off) ==
    { IssuesResponse(n, t, Uniform(n)) :
        n \in {0, 1, limit},
        t \in {None, Some(0), Some(0 - 1), Some(150), Some(off + 2 * limit)} }
    \cup {PageErr}

\* An upstream of up to MaxPages pages whose issues differ: a page that is
\* empty, has one issue or is full, with total_count missing or given; or a
\* failure.
MaxPages == 3
MixedPages ==
    { IssuesResponse(0, t, <<>>) : t \in {None, Some(MaxPages * limit - 50)} }
    \cup { IssuesResponse(1, t, <<i>>) :
             t \in {None, Some(MaxPages * limit - 50)}, i \in Issues }
    \cup { IssuesResponse(limit, t, items) :
             t \in {None, Some(MaxPages * limit - 50)},
             items \in { <<i>> : i \in Issues }
                       \cup { pair \in Issues \X Issues : pair[1] # pair[2] } }
    \cup {PageErr}

pages(sc) ==
    IF sc.upstream = "honest" THEN {honest_page(sc.T, limit, sc.offset)}
    ELSE IF sc.upstream = "mixed" THEN MixedPages
    ELSE AnyPages(sc.offset)

\* A total that counts as not yet reached when the upstream does not give it.
page_total_unknown(page) == unwrap_or(page.total_count, 1000000)

\* let total = response.total_count.unwrap_or(response.issues.len() as i32)
page_total(page) == unwrap_or(page.total_count, page.issues)

\* The test that ends the loop after a page with issues: all is scanned.
scanned_all_late(offset, total) ==
    u32_ge(as_u32(offset), as_u32(total)) /\ offset # total

scanned_all(offset, total) == u32_ge(as_u32(offset), as_u32(total))

\* A map that keeps the name an id was first seen with.
HashMap_insert_if_absent(map, id, name) ==
    IF id \in DOMAIN map THEN map ELSE (id :> name) @@ map

\* HashMap::insert
HashMap_insert(map, id, name) == (id :> name) @@ map

\* for issue in &response.issues { ... }: the three maps after the issues.
RECURSIVE extract(_, _)
extract(maps, items) ==
    IF items = <<>> THEN maps
    ELSE LET issue == Head(items) IN
         extract([statuses |-> HashMap_insert(maps.statuses, issue.status.id,
                                              issue.status.name),
                  priorities |-> HashMap_insert(maps.priorities, issue.priority.id,
                                                issue.priority.name),
                  trackers |-> HashMap_insert(maps.trackers, issue.tracker.id,
                                              issue.tracker.name)],
                 Tail(items))

\* into_iter().map(EnumerationValue).collect() and sort_by_key(|v| v.id): the
\* map's entries by ascending id (the ids of a map differ, so the order
\* into_iter yields them in does not show).
RECURSIVE sort_by_key(_)
sort_by_key(map) ==
    IF DOMAIN map = {} THEN <<>>
    ELSE LET least == CHOOSE id \in DOMAIN map : \A other \in DOMAIN map : id <= other
         IN << [id |-> least, name |-> map[least]] >>
                \o sort_by_key([id \in DOMAIN map \ {least} |-> map[id]])

NoMap == [id \in {} |-> ""]

NoScan == [pc |-> "idle", upstream |-> "none", T |-> 0, iteration |-> 0,
           offset |-> 0, asked |-> 0, page |-> NoPage, stop |-> "none",
           maps |-> [statuses |-> NoMap, priorities |-> NoMap, trackers |-> NoMap],
           scanned |-> <<>>]

\* A scan that returns what it gathered before the page that failed.
IssueEnumerationsResponse_partial(sc) ==
    [ok |-> TRUE, err |-> "",
     val |-> [statuses |-> sort_by_key(sc.maps.statuses),
              priorities |-> sort_by_key(sc.maps.priorities),
              trackers |-> sort_by_key(sc.maps.trackers)]]

\* What get_issue_enumerations returns once it has left the loop: the Err of
\* the page that failed, or Ok(IssueEnumerationsResponse).
IssueEnumerationsResponse(sc) ==
    IF sc.stop = "error" THEN Err("page")
    ELSE [ok |-> TRUE, err |-> "",
          val |-> [statuses |-> sort_by_key(sc.maps.statuses),
                   priorities |-> sort_by_key(sc.maps.priorities),
                   trackers |-> sort_by_key(sc.maps.trackers)]]

\* The loop's pass that finds the page budget spent.
ScanCap ==
    /\ scan.pc = "loop"
    /\ scan.iteration + 1 > max_iterations
    /\ scan' = [scan EXCEPT !.iteration = @ + 1, !.pc = "done", !.stop = "cap"]
    /\ UNCHANGED http

\* The loop's pass that reads a page: one list_issues call, which is one
\* HTTP request in the configuration explored (no cache, no limiter).
ScanPage ==
    /\ scan.pc = "loop"
    /\ scan.iteration + 1 <= max_iterations
    /\ http' = http + 1
    /\ \E page \in pages(scan) :
          LET sc == [scan EXCEPT !.iteration = @ + 1, !.asked = scan.offset,
                                 !.page = page,
                                 !.maps = IF page.ok THEN extract(@, page.items)
                                          ELSE @,
                                 !.scanned = IF page.ok THEN @ \o page.items ELSE @]
          IN  scan' =
                IF ~page.ok THEN [sc EXCEPT !.pc = "done", !.stop = "error"]
                ELSE IF page.issues = 0
                    THEN [sc EXCEPT !.pc = "done", !.stop = "empty"]
                ELSE IF scanned_all(sc.offset + limit, page_total(page))
                    THEN [sc EXCEPT !.pc = "done", !.stop = "total",
                                    !.offset = @ + limit]
                ELSE [sc EXCEPT !.offset = @ + limit]

\* ------------------------------------ the tools' duplicates of the client
\* The tools whose duplicates are explored, in the order ToolRegistry::new
\* makes them, and the reads each makes through its duplicate.
Holders == <<"list_projects", "get_project", "delete_project",
             "generate_project_report">>

HolderSet == {Holders[i] : i \in 1..Len(Holders)}

holder_reads(tool) ==
    IF tool = "list_projects"
    THEN {ReadOp("list_projects", [P0 EXCEPT !.limit = Some(25),
                                             !.include_archived = Some(FALSE)])}
    ELSE {ReadOp("get_project", WithId(1)), ReadOp("get_project", WithId(2))}

\* The places an Arc can point to: 0 is what EasyProjectClient::new made.
Addrs == 0..Len(Holders)

\* EasyProjectClient::new: the Arc of its cache, the Arc of its limiter.
EasyProjectClient_new == [cache |-> 0, rate_limiter |-> 0]

\* A duplicate that gets a cache and a limiter of its own at address fresh.
clone_deep(client, fresh) == [cache |-> fresh, rate_limiter |-> fresh]

\* #[derive(Clone)] on EasyProjectClient: Arc::clone copies the pointer and
\* allocates nothing at fresh.
clone(client, fresh) == client

NoShare == [handle |-> [t \in {} |-> EasyProjectClient_new],
            store |-> [a \in {} |-> EmptyCache],
            cells |-> [a \in {} |-> 0],
            last |-> [tool |-> "none", kind |-> "none", key |-> ""]]

\* get_cached_or_fetch through a tool's duplicate, hit.
ShareHit ==
    \E t \in HolderSet : \E o \in holder_reads(t) :
        LET h == share.handle[t]
            key == cache_key(o.op, o.p)
        IN /\ key \in DOMAIN share.store[h.cache]
           /\ share' = [share EXCEPT
                          !.last = [tool |-> t, kind |-> "hit", key |-> key]]

\* get_cached_or_fetch through a tool's duplicate, miss: a cell of the
\* duplicate's limiter, one request, the result stored when it is Ok.
ShareFetch ==
    \E t \in HolderSet : \E o \in holder_reads(t) :
        LET h == share.handle[t]
            key == cache_key(o.op, o.p)
        IN /\ key \notin DOMAIN share.store[h.cache]
           /\ share.cells[h.rate_limiter] >= 1
           /\ \E outcome \in HttpOutcomes :
                LET r == execute_request(outcome, o.op, request(o.op, o.p), 0)
                    parsed == IF r.ok THEN parse_response(r.val, response_type(o.op))
                              ELSE r
                IN share' =
                     [share EXCEPT
                        !.store[h.cache] =
                            IF parsed.ok THEN cache_insert(@, key, parsed.val) ELSE @,
                        !.cells[h.rate_limiter] = @ - 1,
                        !.last = [tool |-> t, key |-> key,
                                  kind |-> IF parsed.ok THEN "stored" ELSE "failed"]]

\* delete_project through the tool's duplicate: a cell, one request, then
\* the method's invalidations.
ShareWrite ==
    LET t == "delete_project"
        h == share.handle[t]
    IN /\ share.cells[h.rate_limiter] >= 1
       /\ \E outcome \in HttpOutcomes :
            LET r == execute_request(outcome, t, request(t, WithId(1)), 0) IN
            share' =
                [share EXCEPT
                    !.store[h.cache] =
                        IF r.ok
                        THEN invalidate_each(@, invalidation_scope(t, WithId(1)))
                        ELSE @,
                    !.cells[h.rate_limiter] = @ - 1,
                    !.last = [tool |-> t, key |-> "",
                              kind |-> IF r.ok THEN "written" ELSE "failed"]]

\* Time passes: a limiter has a cell again, or an entry expires.
ShareTime ==
    /\ \/ \E a \in Addrs :
            /\ share.cells[a] < Burst
            /\ share' = [share EXCEPT !.cells[a] = @ + 1,
                                      !.last = [tool |-> "none", kind |-> "time", key |-> ""]]
       \/ \E a \in Addrs : \E key \in DOMAIN share.store[a] :
            share' = [share EXCEPT
                        !.store[a] = [k \in DOMAIN @ \ {key} |-> @[k]],
                        !.last = [tool |-> "none", kind |-> "time", key |-> ""]]

\* ------------------------------------------------------------- startup
\* AppConfig::default(), the settings startup looks at. A URL text is kept
\* as its scheme (empty when the text has no "scheme:" prefix) and the rest.
AppConfig_default ==
    [base_url |-> [scheme |-> "https", host |-> "your-easyproject-instance.com"],
     auth_type |-> "ApiKey", api_key |-> None, client_id |-> None,
     client_secret |-> None, transport |-> "Stdio", websocket_port |-> Some(8080),
     timeout_seconds |-> 30, max_retries |-> 3,
     rate_limiting |-> [enabled |-> TRUE, requests_per_minute |-> 60,
                        burst_size |-> 10],
     tools |-> ToolsConfig_default]

\* Url::parse: a text without scheme is relative and has no base; an https
\* URL needs a host.
Url_parse(text) ==
    IF text.scheme = "" THEN "RelativeUrlWithoutBase"
    ELSE IF text.host = "" THEN "EmptyHost"
    ELSE "Ok"

\* AppConfig::validate: Ok, or the setting its error names.
validate(config) ==
    IF Url_parse(config.base_url) # "Ok" THEN "base_url"
    ELSE IF config.auth_type = "ApiKey"
            /\ (config.api_key = None \/ config.api_key = Some("")) THEN "api_key"
    ELSE IF config.auth_type = "OAuth2"
            /\ (config.client_id = None \/ config.client_secret = None)
        THEN "client_id"
    ELSE IF config.auth_type = "Session" THEN "auth_type"
    ELSE IF config.transport = "Websocket" /\ config.websocket_port = None
        THEN "websocket_port"
    ELSE IF config.timeout_seconds = 0 THEN "timeout_seconds"
    ELSE IF config.max_retries > 10 THEN "max_retries"
    ELSE "Ok"

\* EasyProjectClient::new: Ok, or how it ends: NonZeroU32::new(0).unwrap()
\* panics when the limiter is built, a missing api_key is an Err.
client_new(config) ==
    IF config.rate_limiting.enabled
        /\ (config.rate_limiting.requests_per_minute = 0
            \/ config.rate_limiting.burst_size = 0) THEN "panic"
    ELSE IF config.api_key = None THEN "api_key"
    ELSE "Ok"

\* The configurations startup is explored with: every combination of the
\* settings validate and EasyProjectClient::new look at, and every
\* combination of the tool flags in a configuration that is accepted.
Configs ==
    { [AppConfig_default EXCEPT
          !.base_url = u, !.auth_type = a, !.api_key = k, !.client_id = ci,
          !.client_secret = cs, !.transport = tr[1], !.websocket_port = tr[2],
          !.timeout_seconds = t, !.max_retries = mr,
          !.rate_limiting = [enabled |-> re, requests_per_minute |-> rpm,
                             burst_size |-> bs]] :
        u \in {AppConfig_default.base_url, [scheme |-> "", host |-> "not-a-url"],
               [scheme |-> "https", host |-> ""]},
        a \in {"ApiKey", "OAuth2", "Session"},
        k \in {None, Some(""), Some("test-key")},
        ci \in {None, Some(""), Some("id")},
        cs \in {None, Some("secret")},
        tr \in {<<"Stdio", Some(8080)>>, <<"Websocket", None>>},
        t \in {0, 30}, mr \in {3, 11},
        re \in BOOLEAN, rpm \in {0, 60}, bs \in {0, 10} }
    \cup
    { [AppConfig_default EXCEPT !.api_key = Some("test-key"), !.tools = tools] :
        tools \in [DOMAIN ToolsConfig_default -> BOOLEAN] }

NoBoot == [config |-> AppConfig_default, stage |-> "none", error |-> "none"]

\* main: a step of startup that did not end Ok ends main.
boot_step(outcome, stage) ==
    [boot EXCEPT !.stage = IF outcome = "Ok" THEN stage ELSE "failed",
                 !.error = IF outcome = "Ok" THEN "none" ELSE outcome]

\* main: config.validate()?
BootValidate ==
    /\ boot.stage = "loaded"
    /\ boot' = boot_step(validate(boot.config), "validated")
    /\ UNCHANGED tool_registry

\* main: EasyProjectClient::new(&config)?, ToolRegistry::new for the log
BootClient ==
    /\ boot.stage = "validated"
    /\ boot' = boot_step(client_new(boot.config), "client")
    /\ UNCHANGED tool_registry

\* main: McpServer::new(config)?, which makes the transport, a client of
\* its own and the registry the server keeps.
BootServer ==
    /\ boot.stage = "client"
    /\ boot' = boot_step(client_new(boot.config), "server")
    /\ tool_registry' = ToolRegistry_new(boot.config.tools)

\* main: mcp_server.run() is entered, the session loop starts.
BootRun ==
    /\ boot.stage = "server"
    /\ boot' = [boot EXCEPT !.stage = "running"]
    /\ UNCHANGED tool_registry

NoListed == [first |-> None, again |-> FALSE]

\* --------------------------------------- two tasks on one client's cache
\* The reads and the mutations the two tasks make.
RaceReads == {ReadOp("get_project", WithId(1)), ReadOp("list_projects", P0),
              ReadOp("get_milestone", WithId(1))}
RaceWrites == {WriteOp("delete_project", WithId(1)),
               WriteOp("delete_milestone", WithId(1))}

NoRace == [reader |-> [pc |-> "idle", o |-> ReadOp("none", P0), val |-> NoRes],
           writer |-> [pc |-> "idle", o |-> WriteOp("none", P0)],
           mutated |-> 0]

\* get_cached_or_fetch up to `cache.get(cache_key).await`: a hit returns the
\* decoded value, a miss goes on to the fetch.
ReaderGet ==
    /\ race.reader.pc = "idle"
    /\ \E o \in RaceReads :
          LET key == cache_key(o.op, o.p) IN
          race' = [race EXCEPT
                     !.reader = IF cache_hit(key)
                                THEN [pc |-> "idle", o |-> o,
                                      val |-> from_cache(cache[key], response_type(o.op))]
                                ELSE [pc |-> "missed", o |-> o, val |-> NoRes]]
    /\ UNCHANGED <<cache, db>>

\* get_cached_or_fetch, `fetch_fn.await?`: the request and its parsing.
ReaderFetch ==
    /\ race.reader.pc = "missed"
    /\ \E outcome \in HttpOutcomes :
          LET o == race.reader.o
              r == execute_request(outcome, o.op, request(o.op, o.p), db)
              parsed == IF r.ok THEN parse_response(r.val, response_type(o.op)) ELSE r
          IN race' = [race EXCEPT !.reader.val = parsed,
                                  !.reader.pc = IF parsed.ok THEN "fetched" ELSE "idle"]
    /\ UNCHANGED <<cache, db>>

\* get_cached_or_fetch, `cache.insert(cache_key.to_string(), value).await`
ReaderInsert ==
    /\ race.reader.pc = "fetched"
    /\ cache' = insert_fetched(cache, cache_key(race.reader.o.op, race.reader.o.p),
                               race.reader.val)
    /\ race' = [race EXCEPT !.reader.pc = "idle"]
    /\ UNCHANGED db

\* delete_project, delete_milestone: `self.execute_request(request).await?`
WriterRequest ==
    /\ race.writer.pc = "idle"
    /\ \E o \in RaceWrites : \E outcome \in HttpOutcomes :
          /\ Is2xx(outcome) => db < MaxWrites
          /\ db' = IF Is2xx(outcome) THEN db + 1 ELSE db
          /\ LET r == execute_request(outcome, o.op, request(o.op, o.p), db')
             IN race' = [race EXCEPT !.writer = [pc |-> IF r.ok THEN "answered"
                                                        ELSE "idle",
                                                 o |-> o]]
    /\ UNCHANGED cache

\* delete_project, delete_milestone: the invalidate_cache calls that follow.
WriterInvalidate ==
    /\ race.writer.pc = "answered"
    /\ cache' = invalidate_each(cache, invalidation_scope(race.writer.o.op,
                                                          race.writer.o.p))
    /\ race' = [race EXCEPT !.writer.pc = "idle", !.mutated = db]
    /\ UNCHANGED db


\* ------------------------------------------- execute_request, one exchange
\* The status codes explored, and the texts: a text is a sequence of
\* whitespace characters, "doc" (the JSON document the upstream serialises
\* its answer to) and "<html>" (characters that start no JSON value).
Statuses == {100, 199, 200, 201, 204, 299, 300, 301, 400, 401, 404, 422, 429, 500, 503}
Texts == { <<>>, <<" ">>, <<"\n", "\t">>, <<"doc">>, <<"\n", "doc", " ">>,
           <<"doc", "doc">>, <<"<html>">>, <<" ", "<html>">> }

\* StatusCode::is_success
is_success(status) == 300 > status /\ status >= 200

\* str::trim: the text without its leading and trailing whitespace.
RECURSIVE trim(_)
trim(text) ==
    IF text = <<>> THEN text
    ELSE IF Head(text) \in {" ", "\n", "\t"} THEN trim(Tail(text))
    ELSE IF text[Len(text)] \in {" ", "\n", "\t"}
         THEN trim(SubSeq(text, 1, Len(text) - 1))
    ELSE text

\* serde_json::from_str::<Value>: one JSON value, whitespace around it
\* allowed, nothing else after it.
from_str(text) == IF trim(text) = <<"doc">> THEN "Ok" ELSE "Err"

\* An executor that looks at the text before it looks at the status.
outcome_of_text_first(status, text) ==
    IF trim(text) = <<>> THEN "empty"
    ELSE IF ~is_success(status) THEN "non_2xx"
    ELSE IF from_str(text) = "Ok" THEN "json"
    ELSE "not_json"

\* execute_request once the response is there: the status, then the text.
outcome_of(status, text) ==
    IF ~is_success(status) THEN "non_2xx"
    ELSE IF trim(text) = <<>> THEN "empty"
    ELSE IF from_str(text) = "Ok" THEN "json"
    ELSE "not_json"

\* ApiError::Api.status of the error execute_request returns, None when it
\* returns Ok.
ApiError_status(status, text) ==
    CASE outcome_of(status, text) = "non_2xx" -> Some(status)
      [] outcome_of(status, text) = "not_json" -> Some(500)
      [] OTHER -> None

NoReply == [stage |-> "none", op |-> "none", status |-> 0, text |-> <<>>,
            result |-> NoRes, api_status |-> None]

\* request.send() returned Ok(response).
Receive ==
    /\ reply.stage = "sent"
    /\ \E status \in Statuses, text \in Texts :
          reply' = [reply EXCEPT !.stage = "received", !.status = status,
                                 !.text = text]

\* The rest of execute_request.
Classify ==
    /\ reply.stage = "received"
    /\ reply' = [reply EXCEPT
                   !.stage = "returned",
                   !.result = execute_request(outcome_of(reply.status, reply.text),
                                              reply.op,
                                              request(reply.op, WithId(1)), db),
                   !.api_status = ApiError_status(reply.status, reply.text)]


NoProbe == [op |-> "none", p1 |-> P0, p2 |-> P0, k1 |-> "", k2 |-> ""]

Init ==
    /\ cfg \in [cache_enabled : BOOLEAN, rate_enabled : BOOLEAN]
    /\ InitClient
    /\ InitSession
    /\ probe = NoProbe
    /\ scan = NoScan
    /\ listed = NoListed
    /\ share = NoShare
    /\ boot = NoBoot
    /\ reply = NoReply
    /\ race = NoRace

quiet == <<call, lastCall, swept, probe, scan, share, boot, reply, race>>

\* The server waits for a line or for a client call of a tool: time passes.
\* (Between a response and the next receive() no time is spent: what happens
\* to the cache or the limiter then happens in the next iteration.)
Running == pc \in {"recv", "exec"}

Next ==
    \/ ReceiveClosed /\ UNCHANGED quiet
    \/ ReceiveBlank /\ UNCHANGED quiet
    \/ ReceiveUndecodable /\ UNCHANGED quiet
    \/ HandleNotification /\ UNCHANGED quiet
    \/ HandleResponse /\ UNCHANGED quiet
    \/ HandleRequest /\ UNCHANGED quiet
    \/ ExecuteTool /\ UNCHANGED quiet
    \/ CacheHit /\ UNCHANGED sessionVars /\ UNCHANGED quiet
    \/ Fetch /\ UNCHANGED sessionVars /\ UNCHANGED quiet
    \/ Write /\ UNCHANGED sessionVars /\ UNCHANGED quiet
    \/ Respond /\ UNCHANGED quiet
    \/ NextIteration /\ UNCHANGED quiet
    \/ Refill /\ Running /\ UNCHANGED sessionVars /\ UNCHANGED quiet
    \/ Expire /\ Running /\ UNCHANGED sessionVars /\ UNCHANGED quiet

\* The server as the session is explored: with the cache or with the limiter
\* in use (the two together are explored on the client called directly).
InitServer ==
    /\ Init
    /\ cfg.cache_enabled # cfg.rate_enabled

\* The server on stdio: one session from start to the end of run().
Spec == InitServer /\ [][Next /\ UNCHANGED listed]_vars

\* ------------------------------------------- the session, tools/list noted
InitList ==
    /\ Init
    /\ cfg = [cache_enabled |-> FALSE, rate_enabled |-> TRUE]

\* A tools/list result was sent: the first is kept, a later one is noted.
RecordListing ==
    listed' =
        IF sent' # <<>> /\ sent' # sent /\ sent'[1].response.tools # None
        THEN IF listed.first = None
             THEN [listed EXCEPT !.first = sent'[1].response.tools]
             ELSE [listed EXCEPT !.again = TRUE]
        ELSE listed

\* The steps of Next a server without cache can take.
NextList ==
    \/ ReceiveClosed /\ UNCHANGED quiet /\ RecordListing
    \/ ReceiveBlank /\ UNCHANGED quiet /\ RecordListing
    \/ ReceiveUndecodable /\ UNCHANGED quiet /\ RecordListing
    \/ HandleNotification /\ UNCHANGED quiet /\ RecordListing
    \/ HandleResponse /\ UNCHANGED quiet /\ RecordListing
    \/ HandleRequest /\ UNCHANGED quiet /\ RecordListing
    \/ ExecuteTool /\ UNCHANGED quiet /\ RecordListing
    \/ Fetch /\ UNCHANGED sessionVars /\ UNCHANGED quiet /\ RecordListing
    \/ Write /\ UNCHANGED sessionVars /\ UNCHANGED quiet /\ RecordListing
    \/ Respond /\ UNCHANGED quiet /\ RecordListing
    \/ NextIteration /\ UNCHANGED quiet /\ RecordListing
    \/ Refill /\ Running /\ UNCHANGED sessionVars /\ UNCHANGED quiet
              /\ RecordListing

\* The server on stdio without cache, observing the tools/list results sent.
SpecList == InitList /\ [][NextList]_vars

\* ------------------------------------------------- cache keys, on their own
\* The parameter sets explored for each read method: each parameter the
\* method declares is unset, or set to the value its key defaults to, or set
\* to another value.
KeyParams(op) ==
    CASE op = "list_projects" ->
            { [P0 EXCEPT !.limit = l, !.offset = o, !.easy_query_q = q] :
                l \in {None, Some(25), Some(10)}, o \in {None, Some(0)},
                q \in {None, Some("")} }
      [] op = "list_issues" ->
            { [P0 EXCEPT !.project_id = pr, !.assigned_to_id = a, !.include = i] :
                pr \in {None, Some(1)}, a \in {None, Some(0)},
                i \in {None, Some(<<"journals">>)} }
      [] op = "list_users" ->
            { [P0 EXCEPT !.limit = l, !.status = st] :
                l \in {None, Some(25)}, st \in {None, Some("active")} }
      [] op = "list_time_entries" ->
            { [P0 EXCEPT !.user_id = u, !.from_date = f] :
                u \in {None, Some(1)}, f \in {None, Some("2024-01-01")} }
      [] op = "list_milestones" ->
            { [P0 EXCEPT !.project_id = pr, !.status = st, !.easy_query_q = q] :
                pr \in {None, Some(0)}, st \in {None, Some("open")},
                q \in {None, Some("beta")} }
      [] op \in {"get_project", "get_issue"} ->
            { [P0 EXCEPT !.id = Some(n), !.include = i] :
                n \in {1, 2}, i \in {None, Some(<<"journals">>)} }
      [] OTHER -> { [P0 EXCEPT !.id = Some(n)] : n \in {1, 2} }

InitKeys ==
    /\ cfg = [cache_enabled |-> TRUE, rate_enabled |-> TRUE]
    /\ InitClient
    /\ InitSession
    /\ \E op \in ReadOps : \E p1 \in KeyParams(op) : \E p2 \in KeyParams(op) :
          probe = [NoProbe EXCEPT !.op = op, !.p1 = p1, !.p2 = p2]
    /\ scan = NoScan
    /\ listed = NoListed
    /\ share = NoShare
    /\ boot = NoBoot
    /\ reply = NoReply
    /\ race = NoRace

\* Each read method's first statement: let cache_key = format!(...)
DeriveKeys ==
    /\ probe.k1 = ""
    /\ probe' = [probe EXCEPT !.k1 = cache_key(probe.op, probe.p1),
                              !.k2 = cache_key(probe.op, probe.p2)]
    /\ UNCHANGED <<clientVars, callerVars, sessionVars, scan, listed, share, boot,
                   reply, race>>

\* A read method deriving the keys of two parameter sets.
SpecKeys == InitKeys /\ [][DeriveKeys]_vars

\* ------------------------------------------------- the scan, on its own
InitScan ==
    /\ cfg = [cache_enabled |-> FALSE, rate_enabled |-> FALSE]
    /\ InitClient
    /\ InitSession
    /\ probe = NoProbe
    /\ listed = NoListed
    /\ share = NoShare
    /\ boot = NoBoot
    /\ reply = NoReply
    /\ race = NoRace
    /\ \/ \E t \in Totals :
              scan = [NoScan EXCEPT !.pc = "loop", !.upstream = "honest", !.T = t]
       \/ scan = [NoScan EXCEPT !.pc = "loop", !.upstream = "any"]
       \/ scan = [NoScan EXCEPT !.pc = "loop", !.upstream = "mixed"]

scanIdle == <<cfg, cache, tokens, db, plan, res, taken, errs, callerVars,
              sessionVars, probe, listed, share, boot, reply, race>>

NextScan ==
    \/ ScanCap /\ UNCHANGED scanIdle
    \/ ScanPage /\ UNCHANGED scanIdle

\* One call of get_issue_enumerations on a client without cache and limiter.
SpecScan == InitScan /\ [][NextScan]_vars

\* ------------------------------------- the tools' duplicates, on their own
\* ToolRegistry::new: every tool is made with api_client.clone().
InitShare ==
    /\ cfg = [cache_enabled |-> TRUE, rate_enabled |-> TRUE]
    /\ InitClient
    /\ InitSession
    /\ probe = NoProbe
    /\ scan = NoScan
    /\ listed = NoListed
    /\ share = [handle |-> [t \in HolderSet |->
                              clone(EasyProjectClient_new,
                                    CHOOSE i \in 1..Len(Holders) : Holders[i] = t)],
                store |-> [a \in Addrs |-> EmptyCache],
                cells |-> [a \in Addrs |-> Burst],
                last |-> NoShare.last]
    /\ boot = NoBoot
    /\ reply = NoReply
    /\ race = NoRace

shareIdle == <<clientVars, callerVars, sessionVars, probe, scan, listed, boot, reply,
               race>>

NextShare ==
    \/ ShareHit /\ UNCHANGED shareIdle
    \/ ShareFetch /\ UNCHANGED shareIdle
    \/ ShareWrite /\ UNCHANGED shareIdle
    \/ ShareTime /\ UNCHANGED shareIdle

\* The tools of one registry calling the client through their duplicates.
SpecShare == InitShare /\ [][NextShare]_vars

\* ---------------------------------------------------- startup, on its own
\* main after AppConfig::load: no server is built yet, no tool registered.
InitBoot ==
    /\ cfg = [cache_enabled |-> TRUE, rate_enabled |-> TRUE]
    /\ InitClient
    /\ pc = "recv" /\ is_initialized = FALSE /\ client_info = None
    /\ is_closed = FALSE /\ msg = NoLine /\ sent = <<>> /\ ran = "none"
    /\ exit = NoExit
    /\ tool_registry = {}
    /\ probe = NoProbe
    /\ scan = NoScan
    /\ listed = NoListed
    /\ share = NoShare
    /\ \E config \in Configs : boot = [NoBoot EXCEPT !.config = config,
                                                     !.stage = "loaded"]
    /\ reply = NoReply
    /\ race = NoRace

bootIdle == <<clientVars, callerVars, pc, is_initialized, client_info, is_closed,
              msg, sent, ran, exit, probe, scan, listed, share, reply, race>>

NextBoot ==
    \/ BootValidate /\ UNCHANGED bootIdle
    \/ BootClient /\ UNCHANGED bootIdle
    \/ BootServer /\ UNCHANGED bootIdle
    \/ BootRun /\ UNCHANGED bootIdle

\* main from the loaded configuration to the start of the session loop.
SpecBoot == InitBoot /\ [][NextBoot]_vars

\* ------------------------------------------- one exchange, on its own
InitReply ==
    /\ cfg = [cache_enabled |-> FALSE, rate_enabled |-> FALSE]
    /\ InitClient
    /\ InitSession
    /\ probe = NoProbe
    /\ scan = NoScan
    /\ listed = NoListed
    /\ share = NoShare
    /\ boot = NoBoot
    /\ \E op \in {"get_project", "create_project"} :
          reply = [NoReply EXCEPT !.stage = "sent", !.op = op]
    /\ race = NoRace

replyIdle == <<clientVars, callerVars, sessionVars, probe, scan, listed, share, boot,
               race>>

NextReply ==
    \/ Receive /\ UNCHANGED replyIdle
    \/ Classify /\ UNCHANGED replyIdle

\* execute_request from the response to its return value.
SpecReply == InitReply /\ [][NextReply]_vars

\* ------------------------------------------- the two tasks, on their own
InitRace ==
    /\ cfg = [cache_enabled |-> TRUE, rate_enabled |-> FALSE]
    /\ InitClient
    /\ InitSession
    /\ probe = NoProbe
    /\ scan = NoScan
    /\ listed = NoListed
    /\ share = NoShare
    /\ boot = NoBoot
    /\ reply = NoReply
    /\ race = NoRace

raceIdle == <<cfg, tokens, plan, res, http, taken, errs, callerVars, sessionVars,
              probe, scan, listed, share, boot, reply>>

NextRace ==
    \/ ReaderGet /\ UNCHANGED raceIdle
    \/ ReaderFetch /\ UNCHANGED raceIdle
    \/ ReaderInsert /\ UNCHANGED raceIdle
    \/ WriterRequest /\ UNCHANGED raceIdle
    \/ WriterInvalidate /\ UNCHANGED raceIdle

\* A read and a mutation of one client, interleaved at their await points.
SpecRace == InitRace /\ [][NextRace]_vars

\* ------------------------------------------------------- specifications
idle == <<sessionVars, probe, scan, listed, share, boot, reply, race>>


NextClient ==
    \/ Invoke /\ UNCHANGED idle
    \/ CacheHit /\ UNCHANGED callerVars /\ UNCHANGED idle
    \/ Fetch /\ UNCHANGED callerVars /\ UNCHANGED idle
    \/ Write /\ UNCHANGED callerVars /\ UNCHANGED idle
    \/ Return /\ RecordCall /\ UNCHANGED swept /\ UNCHANGED idle
    \/ Refill /\ UNCHANGED callerVars /\ UNCHANGED idle
    \/ Expire /\ ~Returning /\ lastCall' = NoLast /\ UNCHANGED <<call, swept>>
              /\ UNCHANGED idle

\* The client called directly, observing which call returned last.
SpecClient == Init /\ [][NextClient]_vars

NextSweep ==
    \/ Invoke /\ UNCHANGED idle
    \/ CacheHit /\ UNCHANGED callerVars /\ UNCHANGED idle
    \/ Fetch /\ UNCHANGED callerVars /\ UNCHANGED idle
    \/ Write /\ RecordSweep /\ UNCHANGED <<call, lastCall>> /\ UNCHANGED idle
    \/ Return /\ UNCHANGED <<lastCall, swept>> /\ UNCHANGED idle
    \/ Refill /\ UNCHANGED callerVars /\ UNCHANGED idle
    \/ Expire /\ UNCHANGED callerVars /\ UNCHANGED idle

\* The client called directly, observing the invalidating writes.
SpecSweep == Init /\ [][NextSweep]_vars

\* The client with its limiter, under fairness: the limiter's clock goes on
\* (Quota::per_minute of a NonZeroU32 replenishes a cell in finite time) and
\* a method that can take its next step takes it (the runtime polls a task
\* that was woken).
InitFair == Init /\ cfg = [cache_enabled |-> TRUE, rate_enabled |-> TRUE]

SpecFair ==
    /\ InitFair
    /\ [][NextClient]_vars
    /\ WF_vars(Refill /\ UNCHANGED callerVars /\ UNCHANGED idle)
    /\ WF_vars(Fetch /\ UNCHANGED callerVars /\ UNCHANGED idle)
    /\ WF_vars(Write /\ UNCHANGED callerVars /\ UNCHANGED idle)

\* ------------------------------------------------ the client's properties
\* C3: with the cache enabled, when a read returned Ok and the same method is
\* called again with the same parameters while no entry expired, was evicted
\* or invalidated in between, the second call returns the same result, sends
\* no HTTP request and takes no rate-limit token.
C3_RepeatedReadFromCache ==
    (cfg.cache_enabled /\ Returning /\ lastCall.call = call)
        => (res = Ok(lastCall.val) /\ http = 0 /\ taken = 0)

C3_Witness ==
    /\ cfg.cache_enabled /\ cfg.rate_enabled
    /\ Returning
    /\ lastCall.call = call
    /\ call = Call("list_projects", [P0 EXCEPT !.limit = Some(25)])
    /\ res.ok

\* C5: after delete_project, create_milestone, update_milestone or
\* delete_milestone returned Ok, a read whose key was cached before that write
\* does not return a value from before it: its value is of the upstream
\* version the write left, or a later one.
C5_NoStaleReadAfterScopedWrite ==
    (Returning /\ call.op \in ReadOps /\ res.ok
        /\ cache_key(call.op, call.p) \in swept.keys)
        => res.val.ver >= swept.ver

C5_Witness ==
    /\ Returning /\ call.op = "get_issue" /\ res.ok
    /\ cache_key(call.op, call.p) \in swept.keys
    /\ swept.ver = 1
    /\ http = 1
    /\ res.val.ver = 1

\* C6: update_issue that got an empty 2xx body returns the issue as the
\* upstream holds it after the update.
C6_UpdateIssueReturnsCurrent ==
    (Returning /\ call.op = "update_issue" /\ res.ok)
        => (~res.val.empty /\ res.val.shape = "issue" /\ res.val.ver = db)

\* C7: right after any write returned Ok the cache is empty.
C7_CacheEmptyAfterWrite ==
    (Returning /\ call.op \in WriteOps /\ res.ok) => cache = EmptyCache

\* The operation the running call makes next sends an HTTP request.
NeedsRequest ==
    /\ plan # <<>>
    /\ Head(plan).k = "read" => ~cache_hit(cache_key(Head(plan).op, Head(plan).p))

\* C8: with rate limiting enabled the token count stays within 0..burst, a
\* request is dispatched only by taking one token from a bucket that holds
\* one, and while the bucket is empty the call that needs a request neither
\* proceeds nor fails.
C8_TokenBeforeRequest ==
    /\ [](tokens \in 0..Burst)
    /\ [][cfg.rate_enabled =>
            /\ (http' > http => (tokens >= 1 /\ tokens' = tokens - 1))
            /\ ((tokens = 0 /\ NeedsRequest) =>
                    (plan' = plan /\ res' = res /\ http' = http /\ call' = call))
         ]_vars

C8_Witness ==
    /\ cfg.rate_enabled
    /\ tokens = 0
    /\ NeedsRequest
    /\ http = 0

\* ------------------------------------------------ the session's properties
\* The message being handled is a request for one of the methods.
RequestFor(methods) == from_json(msg) = "Request" /\ msg.method \in methods

\* C1: while no initialize has succeeded, a tools/list or tools/call request
\* gets one error response with the protocol error's code, runs no tool and
\* sends no upstream request, and leaves the session uninitialized with its
\* loop running; a valid initialize request, whenever it comes, succeeds.
C1_UninitializedRejected ==
    /\ (RequestFor({"tools/list", "tools/call"}) /\ ~is_initialized)
        => /\ pc = "done"
           /\ Len(sent) = 1
           /\ ~sent[1].response.ok
           /\ sent[1].response.code = JsonRpcError_code("Protocol")
           /\ ran = "none"
           /\ http = 0 /\ plan = <<>> /\ cache = EmptyCache
           /\ ~is_closed
    /\ (RequestFor({"initialize"}) /\ msg.params.valid)
        => /\ pc = "done"
           /\ is_initialized
           /\ Len(sent) = 1 /\ sent[1].response.ok

C1_Witness ==
    /\ RequestFor({"tools/call"})
    /\ msg.params = CallToolParams("get_project", Args(WithId(1)))
    /\ ~is_initialized
    /\ pc = "done"
    /\ sent[1].written

\* C2: a request is answered by exactly one response, which carries the
\* request's id, whether the outcome is a result or any error; nothing else
\* is answered. The response is handed to the transport once, and the loop
\* leaves a request only after that.
C2_OneCorrelatedResponse ==
    /\ [](/\ Len(sent) <= 1
          /\ (pc = "done" /\ from_json(msg) = "Request")
                => (Len(sent) = 1 /\ sent[1].response.id = msg.id)
          /\ from_json(msg) # "Request" => sent = <<>>)
    /\ [][(from_json(msg) = "Request" /\ msg' # msg)
            => (Len(sent) = 1 /\ sent[1].response.id = msg.id)]_vars

C2_Witness ==
    /\ pc = "done"
    /\ RequestFor({"tools/call"})
    /\ msg.id = "2"
    /\ ran = "update_issue"
    /\ Len(sent) = 1
    /\ sent[1].written
    /\ sent[1].response.is_error

\* C9: no line that was read ends the session loop, whatever is wrong with
\* it: the loop ends only when the transport closes.
C9_NoLineEndsLoop == msg.io = "line" => pc # "stopped"

\* C10: in an initialized session a tools/call request that names a tool
\* not registered is answered with the code -32001 of "tool not found", no
\* tool having run, and the loop goes on.
C10_ToolNotFoundCode ==
    (pc = "done" /\ RequestFor({"tools/call"}) /\ is_initialized
        /\ msg.params.valid /\ msg.params.name \notin tool_registry)
        => /\ Len(sent) = 1
           /\ sent[1].response.code = JsonRpcError_code("ToolNotFound")
           /\ ran = "none"

\* C4: the cache key of a read method is injective in its parameters: two
\* parameter sets that differ in any parameter have different keys.
C4_KeyInjective ==
    (probe.k1 # "" /\ probe.p1 # probe.p2) => probe.k1 # probe.k2


\* C11: a tools/call that names a registered tool and whose arguments are
\* missing or do not decode is answered with a success response (a result,
\* no error object) whose tool result has isError = true.
C11_BadArgumentsAreToolErrors ==
    (pc = "done" /\ RequestFor({"tools/call"}) /\ is_initialized
        /\ msg.params.valid /\ msg.params.name \in tool_registry
        /\ ~decode_args(msg.params.name, msg.params.arguments).ok)
        => /\ Len(sent) = 1
           /\ sent[1].response.ok
           /\ sent[1].response.is_error


\* C12: when a client call made for a tools/call returned Err (non-2xx
\* status, transport error, body that does not decode), the request is
\* answered with a success response whose tool result has isError = true.
C12_UpstreamFailureIsToolError ==
    (pc = "done" /\ RequestFor({"tools/call"}) /\ errs.any)
        => /\ Len(sent) = 1
           /\ sent[1].response.ok
           /\ sent[1].response.is_error


\* The message being handled is a well-formed JSON-RPC message that has a
\* method and no id (no id member, or the id null).
IsNotification ==
    /\ msg.io = "line" /\ msg.json /\ msg.envelope /\ ~msg.member
    /\ msg.id \in {"absent", "null"}

\* C13: a notification never has anything written to the transport, whatever
\* its method and whether or not the session is initialized; it runs no tool
\* and sends no upstream request either.
C13_NotificationUnanswered ==
    IsNotification
        => (sent = <<>> /\ pc = "done" /\ ran = "none" /\ http = 0 /\ plan = <<>>)

C13_Witness ==
    /\ IsNotification
    /\ msg.method = "tools/call"
    /\ msg.params.name = "get_project"
    /\ msg.id = "absent"
    /\ is_initialized
    /\ pc = "done"


\* C14: messages are handled one at a time, in the order they arrive: a line
\* is taken only when no message is being handled, so after the response to
\* the request before it was handed to the transport; an upstream request is
\* sent only for the message being handled and before its response. Hence
\* the responses leave in the order of their requests.
C14_OneAtATime ==
    [][/\ (msg' # msg /\ msg' # NoLine)
            => (msg = NoLine /\ pc = "recv" /\ plan = <<>> /\ sent = <<>>)
       /\ (http' > http)
            => (pc = "exec" /\ msg' = msg /\ sent = <<>> /\ sent' = <<>>)
       /\ (sent' # sent /\ sent' # <<>>)
            => (sent = <<>> /\ plan' = <<>> /\ pc' = "done"
                    /\ sent'[1].response.id = msg'.id)
      ]_vars

C14_Witness ==
    /\ pc = "exec"
    /\ msg.id = "2"
    /\ ran = "update_issue"
    /\ http = 1
    /\ plan # <<>>
    /\ sent = <<>>


\* C15: when the transport reports end of input the loop stops, the
\* transport is closed and run() returns Ok (its only other return is the
\* error of close()'s flush of stdout); nothing was written for the closure,
\* and once stopped the server handles no message, sends no upstream request
\* and writes no response.
C15_CleanShutdown ==
    /\ [](msg = Eof => /\ pc = "stopped"
                       /\ is_closed
                       /\ sent = <<>>
                       /\ exit.flushed => exit.result = "Ok")
    /\ [][pc = "stopped" => (pc' = "stopped" /\ msg' = msg /\ sent' = sent
                                /\ http' = http /\ cache' = cache)]_vars

C15_Witness ==
    /\ msg = Eof
    /\ pc = "stopped"
    /\ is_initialized
    /\ cache # EmptyCache
    /\ exit.result = "Ok"


\* The line is a well-formed request (it has an id) for initialize whose
\* params decode into InitializeParams.
ValidInitialize(line) ==
    /\ line.io = "line" /\ line.json /\ line.envelope /\ ~line.member
    /\ line.id \notin {"absent", "null"}
    /\ line.method = "initialize"
    /\ line.params.present /\ line.params.valid

\* C16: is_initialized starts false and never goes back to false; it and
\* client_info change only in the step that handles an initialize request
\* whose params decode, which sets the flag and records that client: no
\* notification, response, unknown method or failed request touches them.
C16_InitializedFlag ==
    /\ ~is_initialized /\ client_info = None
    /\ [][/\ is_initialized => is_initialized'
          /\ (is_initialized' # is_initialized \/ client_info' # client_info)
                => /\ msg' # msg
                   /\ ValidInitialize(msg')
                   /\ is_initialized'
                   /\ client_info' = Some(msg'.params.client)
         ]_vars

C16_Witness ==
    /\ pc = "done"
    /\ RequestFor({"initialize"})
    /\ msg.params = BadParams
    /\ ~sent[1].response.ok
    /\ is_initialized
    /\ client_info = Some("B")


\* ------------------------------------------------------------------ C17
\* The result the scan's stop rule is stated on: the total the page reported,
\* the number of its issues when it reported none.
StopConditionMet ==
    \/ scan.page.issues = 0
    \/ scan.offset >= page_total(scan.page)

\* C17: get_issue_enumerations reads at most 20 pages whatever the upstream
\* returns, and once a page was empty or the running offset has reached the
\* total the page reported, it reads no further page: the scan is over.
C17_ScanStopsAtFirstCondition ==
    /\ http <= max_iterations
    /\ scan.iteration <= max_iterations + 1
    /\ (scan.pc = "loop" /\ http >= 1) => ~StopConditionMet

\* ------------------------------------------------------------------ C18
\* ceil(T / limit)
PagesOf(T) == (T + limit - 1) \div limit

\* C18: against an upstream that holds T issues, reports T and honours limit
\* and offset, the scan asks for the pages at offsets 0, 100, 200, ... and
\* ends Ok after exactly max(1, min(20, ceil(T/100))) page reads; with 150
\* issues it ends after 2, on the offset test.
C18_HonestScanFetches ==
    scan.upstream = "honest" =>
        /\ http >= 1 => scan.asked = limit * (http - 1)
        /\ scan.pc = "done" =>
              /\ scan.stop # "error"
              /\ http = Max(1, Min(max_iterations, PagesOf(scan.T)))
        /\ (scan.pc = "done" /\ scan.T = 150) =>
              /\ http = 2
              /\ scan.stop = "total"
              /\ scan.offset = 200

C18_Witness ==
    /\ scan.upstream = "honest" /\ scan.T = 150 /\ scan.pc = "done"
    /\ http = 2 /\ scan.asked = 100 /\ scan.stop = "total"


\* ------------------------------------------------------------------ C19
\* C19: the registry is never modified once the server is constructed, and
\* every tools/list result of a session holds the same tools (names,
\* descriptions, input schemas) as the session's first one, whatever was
\* handled between them.
C19_ToolsListIdempotent ==
    /\ [][tool_registry' = tool_registry]_vars
    /\ []((pc = "done" /\ RequestFor({"tools/list"}) /\ sent # <<>>
              /\ sent[1].response.ok)
            => /\ listed.first # None
               /\ sent[1].response.tools = listed.first)

C19_Witness ==
    /\ pc = "done" /\ RequestFor({"tools/list"}) /\ sent # <<>>
    /\ sent[1].response.ok /\ listed.again
    /\ db > 0 /\ client_info = Some("B")


\* ------------------------------------------------------------------ C20
\* The result of a request that failed: a transport error, a non-2xx
\* status, a body that does not decode.
HttpFailure(r) ==
    ~r.ok /\ r.err \in {"Http", "Api status", "Api 500 json", "Api 500 parse"}

cache_of(sh, t) == sh.store[sh.handle[t].cache]
cells_of(sh, t) == sh.cells[sh.handle[t].rate_limiter]

\* C21: all tools reach one cache and one limiter. What is cached through
\* one tool's duplicate is cached for every tool; a write through one
\* duplicate that invalidates leaves every tool's cache empty; a cell taken
\* through one duplicate is gone for every tool.
C21_OneCacheOneLimiter ==
    /\ [](\A a \in HolderSet : \A b \in HolderSet :
            /\ cache_of(share, a) = cache_of(share, b)
            /\ cells_of(share, a) = cells_of(share, b))
    /\ [][\A b \in HolderSet :
            /\ share'.last.kind = "stored" /\ share' # share
                  => share'.last.key \in DOMAIN cache_of(share', b)
            /\ share'.last.kind = "written" /\ share' # share
                  => cache_of(share', b) = EmptyCache
            /\ share'.last.kind \in {"stored", "failed", "written"}
                    /\ share' # share
                  => cells_of(share', b) = cells_of(share, b) - 1]_vars

C21_Witness ==
    /\ share.last = [tool |-> "generate_project_report", kind |-> "hit",
                     key |-> "project_1"]
    /\ cache_of(share, "delete_project") # EmptyCache
    /\ cells_of(share, "list_projects") = 0


\* ------------------------------------------------------------------ C22
\* The credential of the declared auth mode is missing or empty.
CredentialMissing(config) ==
    CASE config.auth_type = "ApiKey" -> config.api_key \in {None, Some("")}
      [] config.auth_type = "OAuth2" ->
            \/ config.client_id \in {None, Some("")}
            \/ config.client_secret \in {None, Some("")}
      [] OTHER -> TRUE

\* C22: once validation has run, a configuration with a base URL that does
\* not parse, a missing or empty credential for its auth mode or a zero
\* timeout was refused by it and startup has ended without the session
\* loop; one with a URL that parses, an API key for api-key auth and a
\* positive timeout was not refused for its URL, its credential or its
\* timeout.
C22_InvalidConfigFailsFast ==
    boot.stage \notin {"none", "loaded"} =>
        /\ (\/ Url_parse(boot.config.base_url) # "Ok"
            \/ CredentialMissing(boot.config)
            \/ boot.config.timeout_seconds = 0)
              => (validate(boot.config) # "Ok" /\ boot.stage = "failed")
        /\ validate(boot.config) # "Ok" => boot.stage = "failed"
        /\ (/\ Url_parse(boot.config.base_url) = "Ok"
            /\ boot.config.auth_type = "ApiKey"
            /\ boot.config.api_key \notin {None, Some("")}
            /\ boot.config.timeout_seconds > 0)
              => validate(boot.config)
                    \in {"Ok", "websocket_port", "max_retries"}

\* ------------------------------------------------------------------ C23
\* C23: a configuration whose burst size or whose requests per minute is
\* below 1 never gets to the session loop.
C23_ZeroRateRejected ==
    (\/ boot.config.rate_limiting.burst_size < 1
     \/ boot.config.rate_limiting.requests_per_minute < 1)
        => boot.stage # "running"


C25_InitializeAnyVersion ==
    (pc = "done" /\ RequestFor({"initialize"}) /\ msg.params.present
        /\ msg.params.valid)
      => /\ Len(sent) = 1
         /\ sent[1].response.ok /\ sent[1].response.code = 0
         /\ sent[1].response.initialize # None
         /\ LET result == sent[1].response.initialize[1]
            IN /\ result.protocol_version = "2024-11-05"
               /\ "tools" \in result.capabilities
               /\ result.server_info = ServerConfig_default
         /\ client_info = Some(msg.params.client)
         /\ is_initialized

C25_Witness ==
    /\ pc = "done" /\ RequestFor({"initialize"})
    /\ msg.params.present /\ msg.params.valid
    /\ msg.params.version = "1.0"
    /\ Len(sent) = 1 /\ sent[1].response.ok
    /\ client_info = Some("B") /\ is_initialized


\* ------------------------------------------------------------------ C26
\* C26: once the session is initialized, no step replaces the client
\* identity that the first initialize handshake recorded.
C26_OneHandshake ==
    [][is_initialized => client_info' = client_info]_vars


\* ------------------------------------------------------------------ C27
\* C27: a create, update or delete that the upstream answered with a 2xx
\* status and an empty body gives its caller a success, never the error of
\* a response that does not parse.
C27_EmptyBodyIsSuccess ==
    [][(plan # <<>> /\ Head(plan).k = "write" /\ db' = db + 1
          /\ res' = write_result(Head(plan).op,
                                 execute_request("empty", Head(plan).op,
                                                 request(Head(plan).op, Head(plan).p),
                                                 db').val))
        => res'.ok]_vars


\* ------------------------------------------------------------------ C28
\* C28: what execute_request returns for a response: for a 2xx status and a
\* text that is empty or only whitespace, Ok of the empty JSON object; for a
\* 2xx status and a JSON text, Ok of the value the text holds; for a 2xx
\* status and any other text, an error of decoding; for any other status,
\* an API error with that status code, whatever the text is.
C28_ExecutorClassifies ==
    reply.stage = "returned" =>
        LET success == reply.status \in 200..299
            blank == \A i \in 1..Len(reply.text) : reply.text[i] \in {" ", "\n", "\t"}
            json == \E i \in 1..Len(reply.text) :
                       /\ reply.text[i] = "doc"
                       /\ \A j \in 1..Len(reply.text) :
                             j # i => reply.text[j] \in {" ", "\n", "\t"}
        IN /\ (success /\ blank) => reply.result = Ok(EmptyObject)
           /\ (success /\ json) =>
                 reply.result = Ok(UpstreamBody(reply.op, request(reply.op, WithId(1)), db))
           /\ (success /\ ~blank /\ ~json) =>
                 /\ ~reply.result.ok /\ reply.result.err = "Api 500 json"
                 /\ reply.api_status = Some(500)
           /\ ~success =>
                 /\ ~reply.result.ok /\ reply.result.err = "Api status"
                 /\ reply.api_status = Some(reply.status)

C28_Witness ==
    /\ reply.stage = "returned"
    /\ reply.status = 404 /\ reply.text = <<"doc">>
    /\ reply.api_status = Some(404) /\ ~reply.result.ok


\* ------------------------------------------------------------------ C29
\* C29: a read that misses the cache sends a request, and when that request
\* or the decoding of its answer fails the cache is left as it was, with no
\* entry under the read's key, so that the same read misses again.
C29_OnlySuccessCached ==
    [][(plan # <<>> /\ Head(plan).k = "read" /\ plan' # plan)
        => LET key == cache_key(Head(plan).op, Head(plan).p)
           IN /\ ~cache_hit(key) => http' = http + 1
              /\ (http' = http + 1 /\ ~res'.ok)
                    => (cache' = cache /\ key \notin DOMAIN cache')]_vars

C29_Witness ==
    /\ cfg.cache_enabled /\ cache # EmptyCache
    /\ call.op \in ReadOps /\ http = 1
    /\ ~res.ok /\ res.err = "Api 500 parse"
    /\ cache_key(call.op, call.p) \notin DOMAIN cache


\* ------------------------------------------------------------------ C31
\* C31: an invalidation empties the cache whatever its pattern is: after a
\* write with an invalidation scope succeeded no entry of any resource type
\* is left, no write step removes some entries and keeps others, and
\* invalidate_cache applied to the cache as it is gives the empty cache for
\* every pattern.
C31_InvalidationClearsAll ==
    /\ [][(plan # <<>> /\ Head(plan).k = "write" /\ http' = http + 1)
            => /\ (res'.ok /\ invalidation_scope(Head(plan).op, Head(plan).p) # <<>>)
                     => cache' = EmptyCache
               /\ cache' # cache => cache' = EmptyCache]_vars
    /\ [](\A pattern \in {"", "projects", "project_1", "milestone", "issue_5"} :
             invalidate_cache(cache, pattern) = EmptyCache)

C31_Witness ==
    /\ Returning /\ call.op = "delete_milestone" /\ res.ok
    /\ cache = EmptyCache
    /\ cache_key("list_projects", P0) \in swept.keys
    /\ cache_key("get_issue", WithId(5)) \in swept.keys


\* ------------------------------------------------------------------ C32
\* C32: with a read and a mutation of one client running concurrently, once
\* the mutation's invalidation is done the cache holds no value that was
\* fetched from the upstream before that mutation.
C32_NoStaleEntryAfterInvalidation ==
    \A k \in DOMAIN cache : cache[k].ver >= race.mutated


\* ------------------------------------------------------------------ C33
\* The running call waits in until_ready: its next operation needs a request
\* and the limiter has no cell.
Suspended == cfg.rate_enabled /\ tokens = 0 /\ NeedsRequest

\* C33: with the limiter enabled, a call that waits in until_ready keeps its
\* place without an error while it waits, and its request is dispatched in
\* the end.
C33_EventuallyAdmitted ==
    /\ [][Suspended => (plan' = plan /\ res' = res /\ errs' = errs)]_vars
    /\ \A n \in 0..2 : (Suspended /\ http = n) ~> (http = n + 1)

C33_Witness ==
    /\ Suspended
    /\ call.op = "update_issue" /\ http = 1 /\ res.ok


\* ------------------------------------------------------------------ C34
\* The optional parameters of each list method that stand for one query
\* parameter, and the name of that query parameter.
ListParams(op) ==
    CASE op = "list_projects" -> {"limit", "offset", "easy_query_q", "sort"}
      [] op = "list_issues" ->
            {"project_id", "limit", "offset", "include", "easy_query_q", "sort",
             "assigned_to_id", "status_id", "tracker_id", "priority_id"}
      [] op = "list_users" -> {"limit", "offset", "easy_query_q", "sort", "status"}
      [] op = "list_time_entries" ->
            {"project_id", "user_id", "limit", "offset", "from_date", "to_date"}
      [] op = "list_milestones" ->
            {"limit", "offset", "project_id", "status", "easy_query_q"}
      [] OTHER -> {}

QueryName(param) ==
    CASE param = "from_date" -> "from" [] param = "to_date" -> "to" [] OTHER -> param

HasQueryParam(query, name) == \E i \in 1..Len(query) : query[i][1] = name

\* C34: in the request of a list method each of these parameters is in the
\* query exactly when it is set, and a search text that is set brings
\* set_filter=1 with it.
C34_QueryFollowsParameters ==
    (probe.k1 # "" /\ ListParams(probe.op) # {}) =>
        LET query == request(probe.op, probe.p1).query
        IN /\ \A param \in ListParams(probe.op) :
                 (probe.p1[param] # None) <=> HasQueryParam(query, QueryName(param))
           /\ probe.p1.easy_query_q # None
                 => \E i \in 1..Len(query) : query[i] = <<"set_filter", "1">>


\* ------------------------------------------------------------------ C35
\* The list IssueEnumerationsResponse holds for a member of Issue.
ListOf(response, member) ==
    CASE member = "status" -> response.statuses
      [] member = "priority" -> response.priorities
      [] member = "tracker" -> response.trackers

\* The reference that the last scanned issue carrying the id has in a member.
LastSeen(member, id) ==
    LET at == {k \in 1..Len(scan.scanned) : scan.scanned[k][member].id = id}
        last == CHOOSE k \in at : \A other \in at : other <= k
    IN scan.scanned[last][member]

\* C35: a scan that ends without an error returns three lists, each strictly
\* ascending by id, holding exactly the ids of the issues scanned, each id
\* with the name it has on the issue scanned last among those that carry it.
C35_SortedEnumerations ==
    (scan.pc = "done" /\ scan.stop # "error") =>
        /\ IssueEnumerationsResponse(scan).ok
        /\ \A member \in {"status", "priority", "tracker"} :
              LET list == ListOf(IssueEnumerationsResponse(scan).val, member)
              IN /\ \A i \in 1..(Len(list) - 1) : list[i].id < list[i + 1].id
                 /\ {list[i].id : i \in 1..Len(list)}
                       = {scan.scanned[k][member].id : k \in 1..Len(scan.scanned)}
                 /\ \A i \in 1..Len(list) :
                       list[i].name = LastSeen(member, list[i].id).name

C35_Witness ==
    /\ scan.pc = "done" /\ scan.stop = "total" /\ scan.iteration = 2
    /\ Len(scan.scanned) = 3
    /\ scan.scanned[1].status = Reference(1, "New")
    /\ IssueEnumerationsResponse(scan).val.statuses
          = << Reference(1, "Novy"), Reference(2, "Closed") >>
    /\ Len(IssueEnumerationsResponse(scan).val.trackers) = 2


\* ------------------------------------------------------------------ C38
\* C38: when a page of the scan fails, the scan is over and returns an error
\* and none of the values gathered from the pages before, and no request
\* follows the one that failed.
C38_FailedPageFailsScan ==
    /\ []((scan.iteration >= 1 /\ ~scan.page.ok)
            => /\ scan.pc = "done" /\ scan.stop = "error"
               /\ ~IssueEnumerationsResponse(scan).ok
               /\ IssueEnumerationsResponse(scan).val = EmptyObject
               /\ http = scan.iteration)
    /\ [][(scan.iteration >= 1 /\ ~scan.page.ok) => http' = http]_vars

C38_Witness ==
    /\ scan.pc = "done" /\ scan.stop = "error"
    /\ scan.iteration = 2 /\ http = 2
    /\ scan.maps.statuses # NoMap
    /\ ~IssueEnumerationsResponse(scan).ok

\* ------------------------------------------------------------------ C39
\* C39: a page without total_count that has at most 100 issues is the last
\* page of the scan: the number of its issues is taken as the total, the
\* loop ends with it, and the scan returns Ok with its three lists and
\* nothing that tells that the upstream may hold more.
C39_MissingTotalEndsScan ==
    (scan.iteration >= 1 /\ scan.page.ok /\ scan.page.total_count = None
        /\ scan.page.issues <= limit)
      => /\ page_total(scan.page) = scan.page.issues
         /\ scan.pc = "done"
         /\ scan.stop = (IF scan.page.issues = 0 THEN "empty" ELSE "total")
         /\ IssueEnumerationsResponse(scan).ok
         /\ DOMAIN IssueEnumerationsResponse(scan).val
               = {"statuses", "priorities", "trackers"}

C39_Witness ==
    /\ scan.upstream = "mixed" /\ scan.iteration = 1 /\ http = 1
    /\ scan.page.ok /\ scan.page.total_count = None /\ scan.page.issues = limit
    /\ scan.pc = "done" /\ scan.stop = "total"
    /\ Len(IssueEnumerationsResponse(scan).val.statuses) = 2


\* ------------------------------------------------------------------ C36
\* The kind of a decoded message as the rule gives it: a result or error
\* member makes a response, else a missing or null id makes a notification,
\* else the message is a request.
KindByRule(line) ==
    IF line.member THEN "Response"
    ELSE IF line.id \in {"absent", "null"} THEN "Notification"
    ELSE "Request"

\* The step in which the loop takes a line and hands it to handle_message.
TakesLine == receiving /\ msg'.io = "line" /\ pc' \in {"done", "exec"}

\* C36: every message that decodes is handled as the kind the rule gives it;
\* a response is sent only while a request is the message handled; and the
\* step that takes a response message sends nothing and leaves the session,
\* the registry and the client as they were.
C36_ClassifiedByMembers ==
    /\ [](\A line \in Lines :
            from_json(line) # "Err" => from_json(line) = KindByRule(line))
    /\ [][TakesLine => from_json(msg') = KindByRule(msg')]_vars
    /\ [][sent' # sent /\ sent' # <<>>
            => (KindByRule(msg') = "Request" /\ Len(sent') = 1
                /\ sent'[1].response.id = msg'.id)]_vars
    /\ [][(TakesLine /\ KindByRule(msg') = "Response")
            => /\ pc' = "done"
               /\ sent' = <<>>
               /\ ran' = "none"
               /\ UNCHANGED <<is_initialized, client_info, is_closed, exit,
                              tool_registry>>
               /\ UNCHANGED clientVars]_vars

C36_Witness ==
    /\ pc = "done" /\ msg.io = "line"
    /\ msg.member /\ msg.method = "tools/list" /\ msg.id = "2"
    /\ from_json(msg) = "Response"
    /\ is_initialized
    /\ sent = <<>>


\* ------------------------------------------------------------------ C37
\* The four writes that invalidate, and the errors execute_request returns.
InvalidatingOps ==
    {"delete_project", "create_milestone", "update_milestone", "delete_milestone"}
RequestErrors == {Err("Http"), Err("Api status"), Err("Api 500 json")}

\* C37: when the request of delete_project, create_milestone,
\* update_milestone or delete_milestone returns an error (no connection, a
\* status outside 2xx, a body that is not JSON), the cache after the step is
\* the cache before it, and the method returns that error.
C37_FailedWriteKeepsCache ==
    [][(plan # <<>> /\ Head(plan).k = "write" /\ http' = http + 1
          /\ Head(plan).op \in InvalidatingOps
          /\ res' \in RequestErrors)
         => (cache' = cache /\ plan' = <<>>)]_vars

C37_Witness ==
    /\ Returning /\ call.op = "update_milestone"
    /\ res = Err("Api status")
    /\ http = 1
    /\ cache_key("get_milestone", WithId(1)) \in DOMAIN cache
    /\ cache_key("list_projects", P0) \in DOMAIN cache


\* ------------------------------------------------------------------ C40
\* The value a read stores under its key: the body it parsed into its type.
StoredBy(op, p) == UpstreamBody(op, request(op, p), 0)

\* C40: the key a read derives is the key of no other read, whatever the
\* other read's parameters; and whichever read derives the same key decodes
\* the value stored under it by the first into its own type.
C40_KeysPartitionedByOperation ==
    probe.k1 # ""
      => /\ \A op \in ReadOps \ {probe.op} : \A q \in KeyParams(op) :
               cache_key(op, q) # probe.k1
         /\ \A op \in ReadOps : \A q \in KeyParams(op) :
               cache_key(op, q) = probe.k1
                 => from_cache(StoredBy(probe.op, probe.p1), response_type(op)).ok

C40_Witness ==
    /\ probe.op = "get_issue" /\ probe.k1 = "issue_1" /\ probe.k2 = "issue_1"
    /\ probe.p1 # probe.p2
    /\ cache_key("get_project", probe.p1) = "project_1"
    /\ from_cache(StoredBy(probe.op, probe.p1), response_type("get_issue")).ok
    /\ ~from_cache(StoredBy(probe.op, probe.p1), response_type("get_project")).ok

====
